---- MODULE Spec2Model ----
(***************************************************************************)
(* A model of the contract-analysis worker:                                *)
(*   - the job pipeline _do_analyze / _run_accurate / _llm_with_timeout    *)
(*     of contract_review_worker/api/main.py        (specification Spec),  *)
(*   - the provider failover controller and the local provider's breaker   *)
(*     of contract_review_worker/api/llm_provider.py (SpecProvider),       *)
(*   - the review post-processing of llm_client.py / llm_provider.py       *)
(*     (SpecReview).                                                       *)
(* Each specification moves its own variables and leaves the others at     *)
(* their idle values.                                                      *)
(***************************************************************************)
EXTENDS Integers, Sequences, FiniteSets, TLC

VARIABLES
    \* ---- job pipeline (main.py) ----
    pc,             \* position of the run inside _do_analyze
    mode,           \* local variable `mode`
    fastOnly,       \* fast_only_pages > 0 and page_count > fast_only_pages
    forceAccurate,  \* local variable force_accurate
    stamp_result,   \* stamp_result["stamp_status"], "None" while stamp_result is None
    stamp_images,   \* TRUE when stamp_images is a non-empty list
    metaMode,       \* meta.get("mode")
    fast,           \* the fast text against the floors, fallback_reasons, the parser's markdown
    meta,           \* meta: its fallback_reasons and fallback_reason keys
    mineru,         \* the run_mineru_cli calls of _run_accurate and the device read
    ocr_llm_fix,    \* meta["ocr_llm_fix"], final_text, what fix_ocr_text did
    ocr_zero_tolerance,  \* meta["ocr_zero_tolerance"] and the text it was computed on
    review,         \* the future of _llm_with_timeout: the review call's state
    timedOut,       \* fut.result(timeout=timeout_s) raised TimeoutError
    excLog,         \* the stages that raised an exception in this run
    sent,           \* the payloads handed to notify_django, in order
    \* ---- provider failover controller and local provider (llm_provider.py) ----
    now,              \* time.time(), in whole seconds
    chain,            \* what _build_client_chain returned for the call in progress
    unhealthy_until,  \* LocalVLLMClient._unhealthy_until of that call's local client
    cpc,              \* position of the controller call: idle, primary, fallback
    lpc,              \* position inside the local provider's method
    op,               \* the controller function called: review or fix
    netlog,           \* what the local client of the call in progress did, in order
    tripped,          \* the trips on a server-side fault of the clients of earlier calls
    calls,            \* provider method calls made by the call in progress
    first_exc,        \* first_exc of the controller's except clause
    second_exc,       \* second_exc of the controller's inner except clause
    ret,              \* what the last controller call returned or raised
    ncalls,           \* controller calls made so far
    only_shape,       \* every response of the call in progress failed, if at all, in shape only
    \* ---- review post-processing (llm_client.py, llm_provider.py) ----
    rpc,              \* model_returned, or returned once Review has produced its result
    model_out,        \* the review JSON the model returned
    path,             \* the provider whose post-processing produced the result
    result,           \* the dict Review returned
    hide_tech_defects,  \* _env_flag("REPORT_HIDE_TECH_DEFECTS", True)
    rewrite,          \* the Chinese rewrite of _postprocess_review_json: counts, calls, outcome
    \* ---- LocalVLLMClient._fit_messages_to_context (llm_provider.py) ----
    fit,              \* the call's configuration, locals and return value
    \* ---- notify_django (main.py) ----
    cb,               \* the call's configuration, loop position and effects
    \* ---- the job store (contract_review/views.py, models.py) ----
    job               \* the ContractJob row and the last job_update response

pipeVars == <<pc, mode, fastOnly, forceAccurate, stamp_result, stamp_images,
              metaMode, fast, meta, mineru, ocr_llm_fix, ocr_zero_tolerance,
              review, timedOut, excLog, sent>>

\* No fast text yet: nothing measured, no reasons, no markdown looked for.
NoFast == [charsBelow |-> FALSE, scoreBelow |-> FALSE, reasons |-> {}, md |-> "-"]

\* meta without the fallback_reasons and fallback_reason keys.
NoFallbackKeys == [has_reasons |-> FALSE, fallback_reasons |-> {}, fallback_reason |-> "-"]

\* run_mineru_cli not called yet; MINERU_DEVICE is read in the except clause
\* of main.py 1521-1522 only.
NoMineru == [calls |-> <<>>, cur_device |-> "unread"]

\* No "ocr_llm_fix" key in meta; final_text is the extracted text.
NoOcrFix == [applied |-> "-", reason |-> "-", final_text |-> "extracted", llm |-> "-"]

\* No "ocr_zero_tolerance" key in meta.
NoGuard == [evaluated |-> FALSE, ok |-> TRUE, reasons |-> {}, text |-> "-"]

provVars == <<now, chain, unhealthy_until, cpc, lpc, op, netlog, tripped, calls,
              first_exc, second_exc, ret, ncalls,
             only_shape>>

revVars == <<rpc, model_out, path, result, hide_tech_defects, rewrite>>

vars == <<pipeVars, provVars, revVars, fit, cb, job>>

nonPipeVars == <<provVars, revVars, fit, cb, job>>

nonProvVars == <<pipeVars, revVars, fit, cb, job>>

nonRevVars == <<pipeVars, provVars, fit, cb, job>>

\* ------------------------------------------------------------------------
\* helpers
\* ------------------------------------------------------------------------
\* No exception: the value of first_exc / second_exc before an except clause binds it.
NoExc == [code |-> 0, text |-> <<>>]

NoMeta == [provider |-> "-", fallback_used |-> FALSE, fallback_from |-> "-",
           fallback_reason |-> <<>>]

NoOutcome == [kind |-> "none", role |-> "-", via |-> "-", meta |-> NoMeta, exc |-> NoExc]

NoChain == [primary |-> "none", fallback |-> "none", healthcheck |-> FALSE]

\* The provider variables while no controller call has been made.
ProvIdle ==
    /\ now = 0
    /\ chain = NoChain
    /\ unhealthy_until = 0
    /\ cpc = "idle"
    /\ lpc = "attempt1"
    /\ op = "review"
    /\ netlog = <<>>
    /\ tripped = {}
    /\ only_shape = TRUE
    /\ calls = [primary |-> 0, fallback |-> 0]
    /\ first_exc = NoExc
    /\ second_exc = NoExc
    /\ ret = NoOutcome
    /\ ncalls = 0

\* dict.get(key) of a key that is missing (None).
Absent == "<absent>"

\* A value found under a key of a review dict: kind is none (the key is
\* missing), list, or dict (a single JSON object where a list was expected,
\* held in items[1]).
None == [kind |-> "none", items |-> <<>>]

List(items) == [kind |-> "list", items |-> items]

Obj(item) == [kind |-> "dict", items |-> <<item>>]

\* The keys of a review dict that carry findings.  The keys of the source are
\* "风险点" (fengxiandian), "风险点及建议" (fengxiandian_ji_jianyi) and
\* "改进措施" (gaijin_cuoshi).
NodeKeys == {"fengxiandian", "risks", "risk_points", "fengxiandian_ji_jianyi",
             "gaijin_cuoshi", "improvements"}

EmptyNode == [k \in NodeKeys |-> None]

\* No rewrite asked for: en_count is _english_fragment_count of the filtered
\* output, new_count that of the rewritten one, used the JSON that goes on to
\* _enforce_risk_suggestion_split.
NoRewrite ==
    [force_chinese |-> FALSE, en_count |-> 0, calls |-> 0, outcome |-> "none",
     new_count |-> 0, used |-> "original"]

\* The review variables while no review is being post-processed.
RevIdle ==
    /\ rpc = "idle"
    /\ model_out = EmptyNode
    /\ path = "none"
    /\ result = EmptyNode
    /\ hide_tech_defects = TRUE
    /\ rewrite = NoRewrite

\* No call of _fit_messages_to_context, no call of notify_django and no job
\* row in use.
FitIdle == fit = [pc |-> "idle"]

CbIdle == cb = [pc |-> "idle"]

JobIdle == job = [pc |-> "idle"]

\* The pipeline variables while no run is in progress.
PipeIdle ==
    /\ pc = "idle"
    /\ mode = "auto"
    /\ fastOnly = FALSE
    /\ forceAccurate = FALSE
    /\ stamp_result = "None"
    /\ stamp_images = FALSE
    /\ metaMode = "auto"
    /\ fast = NoFast
    /\ meta = NoFallbackKeys
    /\ mineru = NoMineru
    /\ ocr_llm_fix = NoOcrFix
    /\ ocr_zero_tolerance = NoGuard
    /\ review = "none"
    /\ timedOut = FALSE
    /\ excLog = {}
    /\ sent = <<>>

Last(s) == s[Len(s)]

Contains(s, tok) == \E i \in 1..Len(s) : s[i] = tok

\* ------------------------------------------------------------------------
\* callback payloads (the dict literals handed to notify_django)
\* ------------------------------------------------------------------------
NoError == <<>>

\* result_json of a payload: the set of its top-level keys; has_result is
\* FALSE when the payload has no "result_json" entry at all.
NoResult == [has_result |-> FALSE, keys |-> {}]

StampKeys(sr) == IF sr = "None" THEN {} ELSE {"stamp_status", "evidence"}

\* merge_stamp_result: normalize_result_json(result_json), then the stamp
\* result's keys and the "是否盖章" text are merged in.
merge_stamp_result(keys, sr) ==
    IF sr = "None" THEN keys ELSE keys \cup StampKeys(sr) \cup {"stamp_text"}

\* build_error_result: {"error", "mode", "meta"} merged with the stamp result.
build_error_result(sr) == merge_stamp_result({"error", "mode", "meta"}, sr)

\* The keys of a review dict returned by review_contract, plus "_llm_meta".
ReviewKeys == {"contract_type", "overview", "risks", "improvements", "key_facts"}

Running(progress, stage) ==
    [status |-> "running", progress |-> progress, stage |-> stage,
     error |-> NoError, result_json |-> NoResult]

StampStartPayload == Running(12, "stamp_start")
StampDonePayload == Running(14, "stamp_done")
StartPayload == Running(5, "start")
OcrStartPayload == Running(15, "ocr_start")
OcrDonePayload == Running(28, "ocr_done")
FallbackToAccuratePayload == Running(30, "fallback_to_accurate")
MineruStartPayload == Running(35, "mineru_start")
\* The retry reported under the stage and progress of the first run.
MineruRetryCpuPayload_AsStart == Running(35, "mineru_start")

MineruRetryCpuPayload == Running(45, "mineru_retry_cpu")
MineruDonePayload == Running(65, "mineru_done")
MineruNoMdPayload == Running(68, "mineru_no_md_fallback")
MineruEmptyMdPayload == Running(68, "mineru_empty_md_fallback")
AccurateFallbackDonePayload == Running(72, "accurate_fallback_done")
OcrFixStartPayload == Running(74, "ocr_llm_fix_start")
OcrFixDonePayload == Running(77, "ocr_llm_fix_done")
LlmStartPayload == Running(80, "llm_start")

GuardFailedPayload(sr) ==
    [status |-> "error", progress |-> 100, stage |-> "ocr_zero_guard_failed",
     error |-> <<"OCR", "zero-tolerance", "guard", "blocked", "result">>,
     result_json |-> [has_result |-> TRUE, keys |-> build_error_result(sr)]]

LlmTimeoutPayload_NoTimeoutText(sr) ==
    [status |-> "error", progress |-> 100, stage |-> "llm_timeout",
     error |-> <<"llm", "failed">>,
     result_json |-> [has_result |-> TRUE, keys |-> build_error_result(sr)]]

LlmTimeoutPayload(sr) ==
    [status |-> "error", progress |-> 100, stage |-> "llm_timeout",
     error |-> <<"llm", "timeout", "after", "timeout_s", "s">>,
     result_json |-> [has_result |-> TRUE, keys |-> build_error_result(sr)]]

LlmErrorPayload(sr) ==
    [status |-> "error", progress |-> 100, stage |-> "llm_error",
     error |-> <<"llm", "failed", "exc">>,
     result_json |-> [has_result |-> TRUE, keys |-> build_error_result(sr)]]

DonePayload_Progress99(sr) ==
    [status |-> "done", progress |-> 99, stage |-> "done",
     error |-> NoError,
     result_json |-> [has_result |-> TRUE,
                      keys |-> merge_stamp_result(ReviewKeys \cup {"_llm_meta"}, sr)]]

DonePayload(sr) ==
    [status |-> "done", progress |-> 100, stage |-> "done",
     error |-> NoError,
     result_json |-> [has_result |-> TRUE,
                      keys |-> merge_stamp_result(ReviewKeys \cup {"_llm_meta"}, sr)]]

WorkerErrorPayload_StillRunning ==
    [status |-> "running", progress |-> 99, stage |-> "worker_error",
     error |-> <<"worker", "exception", "exc">>, result_json |-> NoResult]

WorkerErrorPayload ==
    [status |-> "error", progress |-> 100, stage |-> "worker_error",
     error |-> <<"worker", "exception", "exc">>, result_json |-> NoResult]


\* ------------------------------------------------------------------------
\* the job pipeline: _do_analyze, _run_accurate, _llm_with_timeout
\* ------------------------------------------------------------------------
ReviewModes == {"auto", "fast", "accurate", "other"}

StampVerdicts == {"YES", "NO", "UNCERTAIN"}

\* Exceptions of these stages are caught where they happen and the run goes on
\* (main.py 1686-1687, 1709-1713, 1885-1886).
AbsorbedStages == {"stamp_render", "stamp_detect", "red_fallback", "ocr_fix"}

\* notify_django(payload): the payload is posted to the job store.
notify_django(p) == sent' = Append(sent, p)

\* An exception leaves the try body of _do_analyze for its except clause.
RaiseTo(stage, target) ==
    /\ excLog' = excLog \cup {stage}
    /\ pc' = target

PipeInit ==
    /\ pc = "setup"
    /\ mode \in ReviewModes
    /\ fastOnly \in BOOLEAN
    /\ forceAccurate \in BOOLEAN
    /\ stamp_result = "None"
    /\ stamp_images = FALSE
    /\ metaMode = mode
    /\ fast = NoFast
    /\ meta = NoFallbackKeys
    /\ mineru = NoMineru
    /\ ocr_llm_fix = NoOcrFix
    /\ ocr_zero_tolerance = NoGuard
    /\ review = "none"
    /\ timedOut = FALSE
    /\ excLog = {}
    /\ sent = <<>>
    /\ ProvIdle
    /\ RevIdle
    /\ FitIdle
    /\ CbIdle
    /\ JobIdle

\* main.py 1627-1647: out_dir.mkdir, _pdf_page_count, the page selection.
Setup ==
    /\ UNCHANGED <<nonPipeVars, fast, meta, mineru, ocr_llm_fix, ocr_zero_tolerance>>
    /\ pc = "setup"
    /\ \E ok \in BOOLEAN :
         IF ok THEN pc' = "stamp" /\ UNCHANGED excLog
               ELSE RaiseTo("setup", "outer_except")
    /\ UNCHANGED <<mode, fastOnly, forceAccurate, stamp_result, stamp_images,
                   metaMode, review, timedOut, sent>>

\* main.py 1649-1655: the document has more pages than STAMP_SKIP_IF_PAGES_GT.
StampSkipped ==
    /\ UNCHANGED <<nonPipeVars, fast, meta, mineru, ocr_llm_fix, ocr_zero_tolerance>>
    /\ pc = "stamp"
    /\ stamp_result' = "UNCERTAIN"
    /\ pc' = "red_fallback"
    /\ UNCHANGED <<mode, fastOnly, forceAccurate, stamp_images, metaMode,
                   review, timedOut, excLog, sent>>

\* main.py 1656: stamp detection is not enabled or the model file is missing.
StampDisabled ==
    /\ UNCHANGED <<nonPipeVars, fast, meta, mineru, ocr_llm_fix, ocr_zero_tolerance>>
    /\ pc = "stamp"
    /\ pc' = "red_fallback"
    /\ UNCHANGED <<mode, fastOnly, forceAccurate, stamp_result, stamp_images,
                   metaMode, review, timedOut, excLog, sent>>

\* main.py 1657-1680: the pages are rendered; with images, stamp_start is sent.
StampRender ==
    /\ UNCHANGED <<nonPipeVars, fast, meta, mineru, ocr_llm_fix, ocr_zero_tolerance>>
    /\ pc = "stamp"
    /\ \E outcome \in {"images", "no_images", "raises"} :
         CASE outcome = "images" ->
                /\ stamp_images' = TRUE
                /\ notify_django(StampStartPayload)
                /\ pc' = "stamp_detect"
                /\ UNCHANGED <<stamp_result, excLog>>
           [] outcome = "no_images" ->
                /\ pc' = "red_fallback"
                /\ UNCHANGED <<stamp_images, stamp_result, excLog, sent>>
           [] outcome = "raises" ->
                /\ stamp_result' = "UNCERTAIN"
                /\ RaiseTo("stamp_render", "red_fallback")
                /\ UNCHANGED <<stamp_images, sent>>
    /\ UNCHANGED <<mode, fastOnly, forceAccurate, metaMode, review, timedOut>>

\* StampDetect without the except clause of main.py 1686-1687: the failure of
\* the detector would leave the try body of _do_analyze.
StampDetect_FailureEscapes ==
    /\ UNCHANGED <<nonPipeVars, fast, meta, mineru, ocr_llm_fix, ocr_zero_tolerance>>
    /\ pc = "stamp_detect"
    /\ \/ \E v \in StampVerdicts :
            /\ stamp_result' = v
            /\ notify_django(StampDonePayload)
            /\ pc' = "red_fallback"
            /\ UNCHANGED excLog
       \/ /\ RaiseTo("stamp_detect", "outer_except")
          /\ UNCHANGED <<stamp_result, sent>>
    /\ UNCHANGED <<mode, fastOnly, forceAccurate, stamp_images, metaMode,
                   review, timedOut>>

\* main.py 1681-1687: the detector subprocess; its failure is caught.
StampDetect ==
    /\ UNCHANGED <<nonPipeVars, fast, meta, mineru, ocr_llm_fix, ocr_zero_tolerance>>
    /\ pc = "stamp_detect"
    /\ \/ \E v \in StampVerdicts :
            /\ stamp_result' = v
            /\ notify_django(StampDonePayload)
            /\ pc' = "red_fallback"
            /\ UNCHANGED excLog
       \/ /\ stamp_result' = "UNCERTAIN"
          /\ RaiseTo("stamp_detect", "red_fallback")
          /\ UNCHANGED sent
    /\ UNCHANGED <<mode, fastOnly, forceAccurate, stamp_images, metaMode,
                   review, timedOut>>

\* main.py 1690-1713: the red-stamp fallback, when enabled and needed.
RedFallback ==
    /\ UNCHANGED <<nonPipeVars, fast, meta, mineru, ocr_llm_fix, ocr_zero_tolerance>>
    /\ pc = "red_fallback"
    /\ \E enabled \in BOOLEAN, outcome \in StampVerdicts \cup {"not_dict", "raises"} :
         LET need == stamp_result \in {"None", "NO", "UNCERTAIN"} IN
         IF ~(enabled /\ need) \/ outcome = "not_dict"
         THEN UNCHANGED <<stamp_result, excLog>>
         ELSE IF outcome = "raises"
         THEN /\ stamp_result' = IF stamp_result = "None" THEN "UNCERTAIN" ELSE stamp_result
              /\ excLog' = excLog \cup {"red_fallback"}
         ELSE /\ stamp_result' = outcome
              /\ UNCHANGED excLog
    /\ pc' = "start"
    /\ UNCHANGED <<mode, fastOnly, forceAccurate, stamp_images, metaMode,
                   review, timedOut, sent>>

\* main.py 1714-1718: a long document forces the fast mode; "start" is sent.
Start ==
    /\ UNCHANGED <<nonPipeVars, fast, meta, mineru, ocr_llm_fix, ocr_zero_tolerance>>
    /\ pc = "start"
    /\ mode' = IF fastOnly /\ mode \in {"auto", "accurate"} THEN "fast" ELSE mode
    /\ notify_django(StartPayload)
    /\ pc' = "config"
    /\ UNCHANGED <<fastOnly, forceAccurate, stamp_result, stamp_images, metaMode,
                   review, timedOut, excLog>>

\* main.py 1720-1730, 1803, 1808: the thresholds are read (int(QWEN_TIMEOUT)
\* raises on a malformed value) and the extraction branch is chosen.
Config ==
    /\ UNCHANGED <<nonPipeVars, fast, meta, mineru, ocr_llm_fix, ocr_zero_tolerance>>
    /\ pc = "config"
    /\ \E ok \in BOOLEAN :
         IF ok
         THEN /\ forceAccurate' = IF fastOnly THEN FALSE ELSE forceAccurate
              /\ metaMode' = mode
              /\ pc' = IF mode = "accurate" THEN "mineru_start" ELSE "ocr_start"
              /\ UNCHANGED excLog
         ELSE /\ RaiseTo("config", "outer_except")
              /\ UNCHANGED <<forceAccurate, metaMode>>
    /\ UNCHANGED <<mode, fastOnly, stamp_result, stamp_images, review, timedOut, sent>>

\* main.py 1731 / 1810.
OcrStart ==
    /\ UNCHANGED <<nonPipeVars, fast, meta, mineru, ocr_llm_fix, ocr_zero_tolerance>>
    /\ pc = "ocr_start"
    /\ notify_django(OcrStartPayload)
    /\ pc' = "fast_ocr"
    /\ UNCHANGED <<mode, fastOnly, forceAccurate, stamp_result, stamp_images,
                   metaMode, review, timedOut, excLog>>

\* main.py 1733-1749 / 1812-1827: the fast OCR and its ocr_done callback.
FastOcr ==
    /\ UNCHANGED <<nonPipeVars, meta, mineru, ocr_llm_fix, ocr_zero_tolerance>>
    /\ pc = "fast_ocr"
    /\ \/ /\ notify_django(OcrDonePayload)
          /\ stamp_images' = FALSE
          /\ \E charsBelow \in BOOLEAN, scoreBelow \in BOOLEAN :
                fast' = [fast EXCEPT !.charsBelow = charsBelow,
                                     !.scoreBelow = scoreBelow]
          /\ pc' = "fast_decide"
          /\ UNCHANGED excLog
       \/ /\ RaiseTo("fast_ocr", "outer_except")
          /\ UNCHANGED <<stamp_images, sent, fast>>
    /\ UNCHANGED <<mode, fastOnly, forceAccurate, stamp_result, metaMode,
                   review, timedOut>>

\* The reasons as the unknown-mode branch collects them (main.py 1829-1833),
\* taken for every mode: the force flag is never looked at.
fallback_reasons_NoForce(m, force, charsBelow, scoreBelow) ==
    (IF charsBelow THEN {"chars_below_threshold"} ELSE {})
    \cup (IF scoreBelow THEN {"score_below_threshold"} ELSE {})

\* The fallback reasons of main.py 1761-1767 (auto) and 1829-1833 (unknown
\* mode, which never looks at force_accurate).
fallback_reasons(m, force, charsBelow, scoreBelow) ==
    (IF m = "auto" /\ force THEN {"force_accurate"} ELSE {})
    \cup (IF charsBelow THEN {"chars_below_threshold"} ELSE {})
    \cup (IF scoreBelow THEN {"score_below_threshold"} ELSE {})

\* main.py 1751-1801 / 1829-1866: stay on the sliced fast text, or fall back.
FastDecide ==
    /\ UNCHANGED <<nonPipeVars, mineru, ocr_llm_fix, ocr_zero_tolerance>>
    /\ pc = "fast_decide"
    /\ LET reasons == fallback_reasons(mode, forceAccurate,
                                       fast.charsBelow, fast.scoreBelow) IN
         IF mode = "fast" \/ reasons = {}
         THEN /\ metaMode' = "fast"
              /\ meta' = NoFallbackKeys
              /\ pc' = "ocr_fix_gate"
              /\ UNCHANGED <<sent, fast>>
         ELSE /\ notify_django(FallbackToAccuratePayload)
              /\ fast' = [fast EXCEPT !.reasons = reasons]
              /\ pc' = "mineru_start"
              /\ UNCHANGED <<metaMode, meta>>
    /\ UNCHANGED <<mode, fastOnly, forceAccurate, stamp_result, stamp_images,
                   review, timedOut, excLog>>

\* main.py 283-303: a needle of the list ("cuda", "out of memory", ...)
\* occurs in the lowercased message.
_is_cuda_failure(msg) == msg = "cuda_out_of_memory"

\* What run_mineru_cli can raise (main.py 433-444, _run_stream 276, 280): the
\* failed command's exit code and output tail, or a timeout.
MineruFailures == {"cuda_out_of_memory", "code_1_file_not_found", "timeout_after_s"}

\* Values of the MINERU_DEVICE setting.
MineruDevices == {"", "CPU", "cuda:0", "gpu0"}

\* main.py 320-341: empty stays empty, a torch device is kept in lower case,
\* anything else becomes cpu.
_sanitize_mineru_device(raw) ==
    CASE raw = "" -> ""
      [] raw \in {"cpu", "CPU"} -> "cpu"
      [] raw \in {"cuda", "cuda:0", "mps"} -> raw
      [] OTHER -> "cpu"

\* One call of run_mineru_cli: its force_device argument and how it ended
\* ("ok" or the failure raised).
MineruCall(force_device, outcome) ==
    [force_device |-> force_device, outcome |-> outcome]

\* main.py 1518.
MineruStart ==
    /\ UNCHANGED <<nonPipeVars, fast, meta, mineru, ocr_llm_fix, ocr_zero_tolerance>>
    /\ pc = "mineru_start"
    /\ notify_django(MineruStartPayload)
    /\ pc' = "mineru_run"
    /\ UNCHANGED <<mode, fastOnly, forceAccurate, stamp_result, stamp_images,
                   metaMode, review, timedOut, excLog>>

\* The first run of the layout parser, retried on cpu after any failure.
MineruRun_RetryAnyFailure ==
    /\ UNCHANGED <<nonPipeVars, fast, meta, ocr_llm_fix, ocr_zero_tolerance>>
    /\ pc = "mineru_run"
    /\ \E outcome \in {"ok", "fails"}, msg \in MineruFailures,
          device \in MineruDevices :
         CASE outcome = "ok" ->
                /\ mineru' = [mineru EXCEPT
                                !.calls = Append(@, MineruCall("None", "ok"))]
                /\ notify_django(MineruDonePayload)
                /\ pc' = "find_md"
                /\ UNCHANGED excLog
           [] OTHER ->
                /\ mineru' = [calls |-> Append(mineru.calls, MineruCall("None", msg)),
                              cur_device |-> _sanitize_mineru_device(device)]
                /\ notify_django(MineruRetryCpuPayload)
                /\ pc' = "mineru_retry"
                /\ UNCHANGED excLog
    /\ UNCHANGED <<mode, fastOnly, forceAccurate, stamp_result, stamp_images,
                   metaMode, review, timedOut>>

\* main.py 1519-1529: the first run of the layout parser.
MineruRun ==
    /\ UNCHANGED <<nonPipeVars, fast, meta, ocr_llm_fix, ocr_zero_tolerance>>
    /\ pc = "mineru_run"
    /\ \E outcome \in {"ok", "fails"}, msg \in MineruFailures,
          device \in MineruDevices :
         CASE outcome = "ok" ->
                /\ mineru' = [mineru EXCEPT
                                !.calls = Append(@, MineruCall("None", "ok"))]
                /\ notify_django(MineruDonePayload)
                /\ pc' = "find_md"
                /\ UNCHANGED excLog
           [] /\ outcome = "fails"
              /\ _sanitize_mineru_device(device) # "cpu"
              /\ _is_cuda_failure(msg) ->
                /\ mineru' = [calls |-> Append(mineru.calls, MineruCall("None", msg)),
                              cur_device |-> _sanitize_mineru_device(device)]
                /\ notify_django(MineruRetryCpuPayload)
                /\ pc' = "mineru_retry"
                /\ UNCHANGED excLog
           [] OTHER ->
                /\ mineru' = [calls |-> Append(mineru.calls, MineruCall("None", msg)),
                              cur_device |-> _sanitize_mineru_device(device)]
                /\ RaiseTo("mineru", "outer_except")
                /\ UNCHANGED sent
    /\ UNCHANGED <<mode, fastOnly, forceAccurate, stamp_result, stamp_images,
                   metaMode, review, timedOut>>

\* main.py 1526, 1529: the retry forced to cpu; its failure propagates.
MineruRetry ==
    /\ UNCHANGED <<nonPipeVars, fast, meta, ocr_llm_fix, ocr_zero_tolerance>>
    /\ pc = "mineru_retry"
    /\ \/ /\ mineru' = [mineru EXCEPT !.calls = Append(@, MineruCall("cpu", "ok"))]
          /\ notify_django(MineruDonePayload)
          /\ pc' = "find_md"
          /\ UNCHANGED excLog
       \/ /\ \E msg \in MineruFailures :
               mineru' = [mineru EXCEPT !.calls = Append(@, MineruCall("cpu", msg))]
          /\ RaiseTo("mineru_retry", "outer_except")
          /\ UNCHANGED sent
    /\ UNCHANGED <<mode, fastOnly, forceAccurate, stamp_result, stamp_images,
                   metaMode, review, timedOut>>

\* _run_accurate's meta without the fallback_reason key of main.py 1552 / 1595.
AccurateMeta_NoReason(reason) ==
    [has_reasons |-> mode # "accurate",
     fallback_reasons |-> IF mode # "accurate" THEN fast.reasons ELSE {},
     fallback_reason |-> "-"]

\* The meta _run_accurate returns (fallback_reason only on its fallback
\* branches, main.py 1552 / 1595) after the caller's meta.update: called from
\* the fast branches it gains fallback_reasons (1795-1799, 1853-1857), called
\* for mode accurate it does not (1803-1806).
AccurateMeta(reason) ==
    [has_reasons |-> mode # "accurate",
     fallback_reasons |-> IF mode # "accurate" THEN fast.reasons ELSE {},
     fallback_reason |-> reason]

\* main.py 1531-1543, 1575-1586, 1617: the markdown the parser left behind.
FindMd ==
    /\ UNCHANGED <<nonPipeVars, mineru, ocr_llm_fix, ocr_zero_tolerance>>
    /\ pc = "find_md"
    /\ \E outcome \in {"text", "no_md", "empty_md", "raises"} :
         CASE outcome = "text" ->
                /\ metaMode' = "accurate"
                /\ meta' = AccurateMeta("-")
                /\ pc' = "ocr_fix_gate"
                /\ UNCHANGED <<sent, excLog, fast>>
           [] outcome = "no_md" ->
                /\ notify_django(MineruNoMdPayload)
                /\ fast' = [fast EXCEPT !.md = "no_md"]
                /\ pc' = "accurate_fallback_ocr"
                /\ UNCHANGED <<metaMode, meta, excLog>>
           [] outcome = "empty_md" ->
                /\ notify_django(MineruEmptyMdPayload)
                /\ fast' = [fast EXCEPT !.md = "empty_md"]
                /\ pc' = "accurate_fallback_ocr"
                /\ UNCHANGED <<metaMode, meta, excLog>>
           [] outcome = "raises" ->
                /\ RaiseTo("find_md", "outer_except")
                /\ UNCHANGED <<metaMode, meta, fast, sent>>
    /\ UNCHANGED <<mode, fastOnly, forceAccurate, stamp_result, stamp_images,
                   review, timedOut>>

\* main.py 1544-1573 / 1587-1616: the fast OCR run in place of the parser.
AccurateFallbackOcr ==
    /\ UNCHANGED <<nonPipeVars, fast, mineru, ocr_llm_fix, ocr_zero_tolerance>>
    /\ pc = "accurate_fallback_ocr"
    /\ \E outcome \in {"text", "empty", "raises"} :
         IF outcome = "text"
         THEN /\ notify_django(AccurateFallbackDonePayload)
              /\ metaMode' = "accurate_fallback"
              /\ meta' = AccurateMeta(IF fast.md = "no_md"
                                       THEN "mineru_no_markdown"
                                       ELSE "mineru_empty_markdown")
              /\ pc' = "ocr_fix_gate"
              /\ UNCHANGED excLog
         ELSE /\ RaiseTo("accurate_fallback_ocr", "outer_except")
              /\ UNCHANGED <<metaMode, meta, sent>>
    /\ UNCHANGED <<mode, fastOnly, forceAccurate, stamp_result, stamp_images,
                   review, timedOut>>

\* main.py 1868-1877: _should_run_llm_ocr_fix(final_text).
OcrFixGate ==
    /\ UNCHANGED <<nonPipeVars, fast, meta, mineru, ocr_llm_fix, ocr_zero_tolerance>>
    /\ pc = "ocr_fix_gate"
    /\ \E should \in BOOLEAN :
         IF should
         THEN notify_django(OcrFixStartPayload) /\ pc' = "ocr_fix"
         ELSE UNCHANGED sent /\ pc' = "guard"
    /\ UNCHANGED <<mode, fastOnly, forceAccurate, stamp_result, stamp_images,
                   metaMode, review, timedOut, excLog>>

\* Lengths, in characters, of the stripped text handed to the fix and of the
\* stripped answer of the model.
RawLens == {100, 300}

FixedLens == {0, 100, 134, 135, 300}

\* main.py 1880, llm_provider.py 1447, llm_client.py 717:
\* max(120, int(raw_len * 0.45)).
MinFixedLen(raw_len) ==
    IF (raw_len * 45) \div 100 > 120 THEN (raw_len * 45) \div 100 ELSE 120

\* llm_provider.py 1426-1450, llm_client.py 696-719: the provider's
\* fix_ocr_text returns the model's answer, or raw_text itself when the answer
\* is empty or shorter than the floor.
fix_ocr_text(raw_len, fixed_len) ==
    IF raw_len = 0 \/ fixed_len = 0 \/ fixed_len < MinFixedLen(raw_len)
    THEN [text |-> "raw_text", len |-> raw_len]
    ELSE [text |-> "fixed", len |-> fixed_len]

\* main.py 1878-1896: fix_ocr_text; its exception is caught. The text that
\* passes the length test of 1880 becomes final_text after _normalize_ocr_text.
OcrFix ==
    /\ UNCHANGED <<nonPipeVars, fast, meta, mineru, ocr_zero_tolerance>>
    /\ pc = "ocr_fix"
    /\ \E raises \in BOOLEAN, raw_len \in RawLens, fixed_len \in FixedLens :
         IF raises
         THEN /\ excLog' = excLog \cup {"ocr_fix"}
              /\ ocr_llm_fix' = [applied |-> "False", reason |-> "error",
                                 final_text |-> "extracted", llm |-> "raised"]
         ELSE LET fixed_text == fix_ocr_text(raw_len, fixed_len)
              IN  /\ UNCHANGED excLog
                  /\ ocr_llm_fix' =
                       IF fixed_text.len > 0 /\ fixed_text.len >= MinFixedLen(raw_len)
                       THEN [applied |-> "True", reason |-> "-",
                             final_text |-> IF fixed_text.text = "fixed"
                                            THEN "normalized_fixed"
                                            ELSE "normalized_extracted",
                             llm |-> fixed_text.text]
                       ELSE [applied |-> "False", reason |-> "too_short_or_empty",
                             final_text |-> "extracted",
                             llm |-> fixed_text.text]
    /\ notify_django(OcrFixDonePayload)
    /\ pc' = "guard"
    /\ UNCHANGED <<mode, fastOnly, forceAccurate, stamp_result, stamp_images,
                   metaMode, review, timedOut>>

\* main.py 806-842: ok and reasons from the three tests on the text
\* (score < OCR_ZERO_MIN_SCORE, a term of _OCR_HARD_BLOCK_TERMS in the text,
\* more than OCR_ZERO_MAX_UNKNOWN_CHARS unknown characters).
_ocr_zero_tolerance_guard(text, low_score, bad_term_hits, unknown_over) ==
    [evaluated |-> TRUE,
     ok |-> ~(low_score \/ bad_term_hits \/ unknown_over),
     reasons |-> (IF low_score THEN {"low_ocr_score"} ELSE {})
                 \cup (IF bad_term_hits THEN {"hard_block_terms"} ELSE {})
                 \cup (IF unknown_over THEN {"unknown_chars"} ELSE {}),
     text |-> text]

\* The guard step that goes on to the review although the guard said no.
Guard_GoesOn ==
    /\ UNCHANGED <<nonPipeVars, fast, meta, mineru, ocr_llm_fix>>
    /\ pc = "guard"
    /\ \E enabled \in BOOLEAN, low_score \in BOOLEAN, bad_term_hits \in BOOLEAN,
          unknown_over \in BOOLEAN :
         IF enabled
         THEN /\ ocr_zero_tolerance' =
                    _ocr_zero_tolerance_guard(ocr_llm_fix.final_text, low_score,
                                              bad_term_hits, unknown_over)
              /\ UNCHANGED sent /\ pc' = "llm_start"
         ELSE UNCHANGED <<sent, ocr_zero_tolerance>> /\ pc' = "llm_start"
    /\ UNCHANGED <<mode, fastOnly, forceAccurate, stamp_result, stamp_images,
                   metaMode, review, timedOut, excLog>>

\* main.py 1898-1921: the zero-tolerance guard, on final_text as the OCR-fix
\* pass left it.
Guard ==
    /\ UNCHANGED <<nonPipeVars, fast, meta, mineru, ocr_llm_fix>>
    /\ pc = "guard"
    /\ \E enabled \in BOOLEAN, low_score \in BOOLEAN, bad_term_hits \in BOOLEAN,
          unknown_over \in BOOLEAN :
         IF enabled
         THEN /\ ocr_zero_tolerance' =
                    _ocr_zero_tolerance_guard(ocr_llm_fix.final_text, low_score,
                                              bad_term_hits, unknown_over)
              /\ IF ocr_zero_tolerance'.ok
                 THEN UNCHANGED sent /\ pc' = "llm_start"
                 ELSE /\ notify_django(GuardFailedPayload(stamp_result))
                      /\ pc' = "returned"
         ELSE UNCHANGED <<sent, ocr_zero_tolerance>> /\ pc' = "llm_start"
    /\ UNCHANGED <<mode, fastOnly, forceAccurate, stamp_result, stamp_images,
                   metaMode, review, timedOut, excLog>>

\* main.py 1923-1928, 1509-1510: llm_start is sent and review_contract is
\* submitted to the one-worker executor.
LlmStart ==
    /\ UNCHANGED <<nonPipeVars, fast, meta, mineru, ocr_llm_fix, ocr_zero_tolerance>>
    /\ pc = "llm_start"
    /\ notify_django(LlmStartPayload)
    /\ review' = "in_flight"
    /\ pc' = "fut_result"
    /\ UNCHANGED <<mode, fastOnly, forceAccurate, stamp_result, stamp_images,
                   metaMode, timedOut, excLog>>

\* The worker thread: review_contract returns or raises, at any time, or never.
ReviewFinishes ==
    /\ UNCHANGED <<nonPipeVars, fast, meta, mineru, ocr_llm_fix, ocr_zero_tolerance>>
    /\ review = "in_flight"
    /\ \E outcome \in {"returned", "raised"} : review' = outcome
    /\ UNCHANGED <<pc, mode, fastOnly, forceAccurate, stamp_result, stamp_images,
                   metaMode, timedOut, excLog, sent>>

\* main.py 1511: fut.result(timeout=timeout_s) gets the finished call's result
\* or exception; the executor's worker is idle, so leaving the with block
\* does not wait.
FutResult ==
    /\ UNCHANGED <<nonPipeVars, fast, meta, mineru, ocr_llm_fix, ocr_zero_tolerance>>
    /\ pc = "fut_result"
    /\ review \in {"returned", "raised"}
    /\ IF review = "returned"
       THEN pc' = "merge" /\ UNCHANGED excLog
       ELSE RaiseTo("review", "llm_error")
    /\ UNCHANGED <<mode, fastOnly, forceAccurate, stamp_result, stamp_images,
                   metaMode, review, timedOut, sent>>

\* main.py 1511: timeout_s elapses while the call is in flight;
\* fut.result raises TimeoutError inside the with block.
DeadlineElapses ==
    /\ UNCHANGED <<nonPipeVars, fast, meta, mineru, ocr_llm_fix, ocr_zero_tolerance>>
    /\ pc = "fut_result"
    /\ review = "in_flight"
    /\ timedOut' = TRUE
    /\ RaiseTo("review_deadline", "executor_exit")
    /\ UNCHANGED <<mode, fastOnly, forceAccurate, stamp_result, stamp_images,
                   metaMode, review, sent>>

\* shutdown(wait): what leaving `with ThreadPoolExecutor(...)` needs of the
\* submitted call before the with block is left. ThreadPoolExecutor.__exit__
\* calls shutdown(wait=True), which joins the worker thread.
ExecutorExitReady(r) == r # "in_flight"

\* main.py 1509: the with block is left with the TimeoutError pending.
ExecutorExit ==
    /\ UNCHANGED <<nonPipeVars, fast, meta, mineru, ocr_llm_fix, ocr_zero_tolerance>>
    /\ pc = "executor_exit"
    /\ ExecutorExitReady(review)
    /\ pc' = "llm_timeout"
    /\ UNCHANGED <<mode, fastOnly, forceAccurate, stamp_result, stamp_images,
                   metaMode, review, timedOut, excLog, sent>>

\* main.py 1932-1946.
LlmTimeout ==
    /\ UNCHANGED <<nonPipeVars, fast, meta, mineru, ocr_llm_fix, ocr_zero_tolerance>>
    /\ pc = "llm_timeout"
    /\ notify_django(LlmTimeoutPayload(stamp_result))
    /\ pc' = "returned"
    /\ UNCHANGED <<mode, fastOnly, forceAccurate, stamp_result, stamp_images,
                   metaMode, review, timedOut, excLog>>

\* main.py 1947-1961.
LlmError ==
    /\ UNCHANGED <<nonPipeVars, fast, meta, mineru, ocr_llm_fix, ocr_zero_tolerance>>
    /\ pc = "llm_error"
    /\ notify_django(LlmErrorPayload(stamp_result))
    /\ pc' = "returned"
    /\ UNCHANGED <<mode, fastOnly, forceAccurate, stamp_result, stamp_images,
                   metaMode, review, timedOut, excLog>>

\* main.py 1963-1975.
Done ==
    /\ UNCHANGED <<nonPipeVars, fast, meta, mineru, ocr_llm_fix, ocr_zero_tolerance>>
    /\ pc = "merge"
    /\ notify_django(DonePayload(stamp_result))
    /\ pc' = "returned"
    /\ UNCHANGED <<mode, fastOnly, forceAccurate, stamp_result, stamp_images,
                   metaMode, review, timedOut, excLog>>

\* main.py 1977-1980.
OuterExcept ==
    /\ UNCHANGED <<nonPipeVars, fast, meta, mineru, ocr_llm_fix, ocr_zero_tolerance>>
    /\ pc = "outer_except"
    /\ notify_django(WorkerErrorPayload)
    /\ pc' = "returned"
    /\ UNCHANGED <<mode, fastOnly, forceAccurate, stamp_result, stamp_images,
                   metaMode, review, timedOut, excLog>>

PipeNext ==
    \/ Setup \/ StampSkipped \/ StampDisabled \/ StampRender \/ StampDetect
    \/ RedFallback \/ Start \/ Config \/ OcrStart \/ FastOcr \/ FastDecide
    \/ MineruStart \/ MineruRun \/ MineruRetry \/ FindMd \/ AccurateFallbackOcr
    \/ OcrFixGate \/ OcrFix \/ Guard \/ LlmStart \/ ReviewFinishes \/ FutResult
    \/ DeadlineElapses \/ ExecutorExit \/ LlmTimeout \/ LlmError \/ Done
    \/ OuterExcept

Spec == PipeInit /\ [][PipeNext]_vars


\* ------------------------------------------------------------------------
\* claims about the job pipeline
\* ------------------------------------------------------------------------
Returned == pc = "returned"

C2_RunDoesNotWaitForReview ==
    (pc = "executor_exit" /\ timedOut) => ENABLED ExecutorExit

AccurateInvoked == \E i \in 1..Len(sent) : sent[i].stage = "mineru_start"

\* The fast text has been judged and, on a fallback, _run_accurate entered.
PastDecision ==
    /\ \E i \in 1..Len(sent) : sent[i].stage = "ocr_done"
    /\ pc \notin {"fast_decide", "mineru_start"}

\* The conditions of step 3 that hold for the run's fast text.
ConditionsHeld ==
    (IF forceAccurate THEN {"force_accurate"} ELSE {})
    \cup (IF fast.charsBelow THEN {"chars_below_threshold"} ELSE {})
    \cup (IF fast.scoreBelow THEN {"score_below_threshold"} ELSE {})

C26_FixBestEffort ==
    /\ ocr_llm_fix.final_text = "normalized_fixed" => ocr_llm_fix.llm = "fixed"
    /\ ocr_llm_fix.llm \in {"raw_text", "raised"} =>
           /\ ocr_llm_fix.final_text = "extracted"
           /\ ocr_llm_fix.applied = "False"
    /\ ocr_llm_fix.llm # "-" =>
           /\ pc # "outer_except"
           /\ Returned => Last(sent).stage # "worker_error"

C28_NoStageReportedTwice ==
    \A i, j \in 1..Len(sent) :
        (sent[i].stage = sent[j].stage /\ sent[i].progress = sent[j].progress) => i = j

C28_Witness ==
    /\ Returned
    /\ Last(sent).stage = "done"
    /\ \A st \in {"stamp_done", "start", "ocr_done", "fallback_to_accurate",
                   "mineru_retry_cpu", "mineru_done", "mineru_empty_md_fallback",
                   "accurate_fallback_done", "ocr_llm_fix_done", "llm_start"} :
           \E i \in 1..Len(sent) : sent[i].stage = st

\* C4: within one run the progress values of the successive payloads are
\* non-decreasing and lie in 0..100.
C4_ProgressMonotone ==
    \A i, j \in 1..Len(sent) :
        /\ sent[i].progress \in 0..100
        /\ (i < j => sent[i].progress <= sent[j].progress)

\* C5: every payload with status running has a progress in 0..99 and a stage
\* name, every payload with status done or error has progress 100, and no
\* other status is ever sent.
C5_StatusProgressShape ==
    \A i \in 1..Len(sent) :
        /\ sent[i].status \in {"running", "done", "error"}
        /\ (sent[i].status = "running" =>
                sent[i].progress \in 0..99 /\ sent[i].stage # "")
        /\ (sent[i].status \in {"done", "error"} => sent[i].progress = 100)

C5_Witness ==
    /\ Returned
    /\ Last(sent).status = "done"
    /\ \E i \in 1..Len(sent) : sent[i].status = "running" /\ sent[i].stage = "mineru_retry_cpu"


\* ------------------------------------------------------------------------
\* exceptions and their text (llm_provider.py)
\* ------------------------------------------------------------------------
\* An exception is [code, text]: code is the int found in its status_code /
\* http_status / code attribute or in response.status_code (0: none), text is
\* str(exc) as a sequence of phrases.

MaxTime == 5

MaxCalls == 2

\* The number of characters of the response body quoted in an error text
\* (the phrase "BODY"), and of every other phrase.
BodyChars == 600

PhraseChars == 40

\* cfg.unhealthy_cooldown_s: max(5, LOCAL_VLLM_UNHEALTHY_COOLDOWN).
Cooldown == 5

\* str(first_exc)[:500]
FallbackReasonMaxChars == 500

PhraseLen(ph) == IF ph = "BODY" THEN BodyChars ELSE PhraseChars

RECURSIVE StrLen(_)
StrLen(text) == IF text = <<>> THEN 0 ELSE PhraseLen(Head(text)) + StrLen(Tail(text))

\* text[:n]: the longest run of whole leading phrases that fits n characters
\* (the phrase the cut falls in is dropped).
Truncate(text, n) ==
    LET k == CHOOSE k \in 0..Len(text) :
                 /\ StrLen(SubSeq(text, 1, k)) <= n
                 /\ (k = Len(text) \/ StrLen(SubSeq(text, 1, k + 1)) > n)
    IN SubSeq(text, 1, k)

\* `marker in phrase`, for the markers the code looks for.
SubstringPairs ==
    { <<"502", "error code 502">>, <<"502", "proxy error 502">>,
      <<"503", "status=503">>, <<"500", "char 1500">>,
      <<"gateway", "bad gateway">>,
      <<"json", "local vllm json request failed fast">>,
      <<"json", "local vllm json request failed">>,
      <<"health failed", "local vllm health failed">> }

\* `marker in str(exc)`
Mentions(text, marker) ==
    \E i \in 1..Len(text) : text[i] = marker \/ <<marker, text[i]>> \in SubstringPairs

\* LocalVLLMClient._extract_status_code
_extract_status_code(exc) ==
    IF exc.code # 0 THEN exc.code
    ELSE IF Mentions(exc.text, "502") THEN 502
    ELSE IF Mentions(exc.text, "503") THEN 503
    ELSE IF Mentions(exc.text, "504") THEN 504
    ELSE IF Mentions(exc.text, "500") THEN 500
    ELSE 0

\* LocalVLLMClient._is_server_side_failure
_is_server_side_failure(exc) ==
    \/ _extract_status_code(exc) >= 500
    \/ Mentions(exc.text, "bad gateway")
    \/ (Mentions(exc.text, "gateway") /\ Mentions(exc.text, "502"))

\* LocalVLLMClient._is_json_parse_failure
JsonMarkers ==
    {"unterminated string", "expecting value", "expecting ',' delimiter", "extra data",
     "empty model response", "model response is not a json object", "json"}

_is_json_parse_failure(exc) ==
    exc.text # <<>> /\ \E m \in JsonMarkers : Mentions(exc.text, m)

\* What a chat completion request can come back with.
CompletionOutcomes ==
    {"json_ok", "empty", "malformed", "malformed_500", "http_502", "http_400", "conn_error"}

\* The exception a completion outcome ends in (json_ok: none).
CompletionExc(c) ==
    CASE c = "empty" -> [code |-> 0, text |-> <<"empty model response">>]
      [] c = "malformed" -> [code |-> 0, text |-> <<"expecting value">>]
      [] c = "malformed_500" -> [code |-> 0, text |-> <<"expecting value", "char 1500">>]
      [] c = "http_502" -> [code |-> 502, text |-> <<"error code 502", "bad gateway", "BODY">>]
      [] c = "http_400" -> [code |-> 400, text |-> <<"error code 400">>]
      [] c = "conn_error" -> [code |-> 0, text |-> <<"connection error">>]
      [] OTHER -> NoExc

\* Where the fault behind an outcome lies: the server (5xx, gateway), the
\* client side (content the model returned, a 4xx), or the transport.
FaultClass(c) ==
    CASE c \in {"http_502", "p503", "p_proxy_502"} -> "server"
      [] c \in {"empty", "malformed", "malformed_500", "http_400", "p404"} -> "client"
      [] OTHER -> "transport"

\* What the health probe GET /v1/models can come back with.
ProbeOutcomes == {"p200", "p404", "p503", "p_conn_refused", "p_proxy_502"}

Event(kind, t, cause) == [kind |-> kind, t |-> t, cause |-> cause]

\* The breaker was tripped by a fault of the server.
ServerTrip(e) == e.kind = "trip" /\ e.cause = "server"

\* _mark_unhealthy with no cooldown added: the breaker is open at once again.
_mark_unhealthy_NoCooldown(t) == t

\* LocalVLLMClient._mark_unhealthy
_mark_unhealthy(t) == t + Cooldown

\* LocalVLLMClient._preflight_health at time t with _unhealthy_until = uu:
\* [ok, exc, events, until].
_preflight_health(t, uu, enabled, probe) ==
    IF t < uu
    THEN [ok |-> FALSE, exc |-> [code |-> 0, text |-> <<"local vllm in cooldown">>],
          events |-> <<Event("fastfail", t, "-")>>, until |-> uu]
    ELSE IF ~enabled
    THEN [ok |-> TRUE, exc |-> NoExc, events |-> <<>>, until |-> uu]
    ELSE
      CASE probe = "p200" ->
             [ok |-> TRUE, exc |-> NoExc, events |-> <<Event("probe", t, "-")>>, until |-> uu]
        [] probe = "p503" ->
             [ok |-> FALSE,
              exc |-> [code |-> 0, text |-> <<"local vllm health failed", "status=503">>],
              events |-> <<Event("probe", t, "-"), Event("trip", t, FaultClass(probe))>>,
              until |-> _mark_unhealthy(t)]
        [] OTHER ->
             LET raw == CASE probe = "p404" ->
                               [code |-> 0, text |-> <<"local vllm health unexpected status", "status=404">>]
                          [] probe = "p_proxy_502" ->
                               [code |-> 0, text |-> <<"proxy error 502", "bad gateway">>]
                          [] OTHER ->
                               [code |-> 0, text |-> <<"connection refused">>]
             IN IF _is_server_side_failure(raw) \/ Mentions(raw.text, "health failed")
                THEN [ok |-> FALSE, exc |-> raw,
                      events |-> <<Event("probe", t, "-")>>, until |-> uu]
                ELSE [ok |-> FALSE,
                      exc |-> [code |-> 0,
                               text |-> <<"local vllm health probe failed">> \o raw.text],
                      events |-> <<Event("probe", t, "-"), Event("trip", t, FaultClass(probe))>>,
                      until |-> _mark_unhealthy(t)]

\* LocalVLLMClient._chat_json: the preflight, the request with
\* response_format=json_object (c1) and, after a failure that is not
\* server-side, the request without it (c2): [ok, exc, events, until].
_chat_json(t, uu, enabled, probe, c1, c2) ==
    LET pre == _preflight_health(t, uu, enabled, probe)
        e1 == CompletionExc(c1)
        e2 == CompletionExc(c2)
        req == Event("completion", t, "-")
    IN IF ~pre.ok THEN pre
       ELSE IF c1 = "json_ok"
       THEN [ok |-> TRUE, exc |-> NoExc, events |-> pre.events \o <<req>>, until |-> uu]
       ELSE IF _is_server_side_failure(e1)
       THEN [ok |-> FALSE,
             exc |-> [code |-> 0,
                      text |-> <<"local vllm json request failed fast">> \o e1.text],
             events |-> pre.events \o <<req, Event("trip", t, FaultClass(c1))>>,
             until |-> _mark_unhealthy(t)]
       ELSE IF c2 = "json_ok"
       THEN [ok |-> TRUE, exc |-> NoExc, events |-> pre.events \o <<req, req>>, until |-> uu]
       ELSE [ok |-> FALSE,
             exc |-> [code |-> 0,
                      text |-> <<"local vllm json request failed", "first=">> \o e1.text
                               \o <<"second=">> \o e2.text],
             events |-> pre.events \o <<req, req>>
                        \o (IF _is_server_side_failure(e2)
                            THEN <<Event("trip", t, FaultClass(c2))>> ELSE <<>>),
             until |-> IF _is_server_side_failure(e2) THEN _mark_unhealthy(t) ELSE uu]

\* LocalVLLMClient._chat_text: the preflight and one request; content that is
\* empty comes back as "" (content = FALSE), every exception is re-raised as
\* it is: [ok, content, exc, events, until].
_chat_text(t, uu, enabled, probe, c) ==
    LET pre == _preflight_health(t, uu, enabled, probe)
        e == CompletionExc(c)
        req == Event("completion", t, "-")
    IN IF ~pre.ok THEN [ok |-> FALSE, content |-> FALSE, exc |-> pre.exc,
                        events |-> pre.events, until |-> pre.until]
       ELSE IF c \in {"json_ok", "malformed", "malformed_500", "empty"}
       THEN [ok |-> TRUE, content |-> c # "empty", exc |-> NoExc,
             events |-> pre.events \o <<req>>, until |-> uu]
       ELSE [ok |-> FALSE, content |-> FALSE, exc |-> e,
             events |-> pre.events \o <<req>>
                        \o (IF _is_server_side_failure(e)
                            THEN <<Event("trip", t, FaultClass(c))>> ELSE <<>>),
             until |-> IF _is_server_side_failure(e) THEN _mark_unhealthy(t) ELSE uu]


\* ------------------------------------------------------------------------
\* the failover controller (llm_provider.py review_contract / fix_ocr_text)
\* ------------------------------------------------------------------------
\* What _build_client_chain can return under the LLM_PRIMARY_PROVIDER,
\* LLM_LOCAL_FALLBACK_REMOTE and LLM_FALLBACK_PROVIDER settings, with the
\* local client's healthcheck_enabled flag.
_build_client_chain ==
    { [primary |-> pf[1], fallback |-> pf[2], healthcheck |-> h] :
        pf \in { <<"local_vllm", "remote">>, <<"local_vllm", "none">>,
                 <<"remote", "local_vllm">>, <<"remote", "none">> },
        h \in BOOLEAN }

\* The exception a remote request ends in after its retries.
RemoteExc == [code |-> 0, text |-> <<"qwen request failed after attempts", "BODY">>]

PrimaryMeta == [provider |-> chain.primary, fallback_used |-> FALSE,
                fallback_from |-> "-", fallback_reason |-> <<>>]

FallbackMeta_NotTagged(e) ==
    [provider |-> chain.fallback, fallback_used |-> FALSE,
     fallback_from |-> chain.primary, fallback_reason |-> Truncate(e.text, FallbackReasonMaxChars)]

FallbackMeta(e) ==
    [provider |-> chain.fallback, fallback_used |-> TRUE,
     fallback_from |-> chain.primary, fallback_reason |-> Truncate(e.text, FallbackReasonMaxChars)]

\* The RuntimeError raised when the fallback also fails.
CombinedError(e1, e2) ==
    [code |-> 0,
     text |-> <<IF op = "review" THEN "llm fallback failed" ELSE "ocr-fix fallback failed",
                "primary=" \o chain.primary, "err=">> \o e1.text
              \o <<"fallback=" \o chain.fallback, "err=">> \o e2.text]

\* The provider method in progress returned (via: how the value was obtained).
Returns(via) ==
    /\ ret' = [kind |-> "result", role |-> cpc, via |-> via,
               meta |-> IF cpc = "primary" THEN PrimaryMeta ELSE FallbackMeta(first_exc),
               exc |-> NoExc]
    /\ cpc' = "idle"
    /\ lpc' = "attempt1"
    /\ UNCHANGED <<first_exc, second_exc>>

\* The provider method in progress raised e.
Raises(e) ==
    /\ lpc' = "attempt1"
    /\ IF cpc = "primary"
       THEN /\ first_exc' = e
            /\ UNCHANGED second_exc
            /\ IF chain.fallback = "none"
               THEN /\ ret' = [kind |-> "raised", role |-> "primary", via |-> "-",
                               meta |-> NoMeta, exc |-> e]
                    /\ cpc' = "idle"
               ELSE /\ cpc' = "fallback"
                    /\ UNCHANGED ret
       ELSE /\ second_exc' = e
            /\ UNCHANGED first_exc
            /\ ret' = [kind |-> "raised", role |-> "fallback", via |-> "-",
                       meta |-> NoMeta, exc |-> CombinedError(first_exc, e)]
            /\ cpc' = "idle"

\* The provider whose method the controller is in.
Current == IF cpc = "idle" THEN "none" ELSE chain[cpc]

\* The local client has been entered by this step (its method is called once).
Entered == calls' = IF lpc = "attempt1" THEN [calls EXCEPT ![cpc] = @ + 1] ELSE calls

\* The outcomes the health probe can have at time t: with the breaker in its
\* cooldown or the health check disabled no probe is sent.
ProbeInputs(t, uu, enabled) == IF t < uu \/ ~enabled THEN {"p200"} ELSE ProbeOutcomes

\* The outcomes the completion request(s) can have after the probe.
FirstInputs(probe) == IF probe = "p200" THEN CompletionOutcomes ELSE {"json_ok"}

\* The second request of _chat_json is made only after a first failure that
\* is not server-side.
SecondInputs(c1) ==
    IF c1 = "json_ok" \/ _is_server_side_failure(CompletionExc(c1))
    THEN {"json_ok"} ELSE CompletionOutcomes

\* The call met no fault of the server or the transport: the probe, if one
\* was sent, answered 200, and each completion request came back with JSON
\* or with content that is empty or malformed. A call refused in the
\* cooldown sends nothing.
OnlyShape(t, uu, enabled, probe, cs) ==
    IF t < uu THEN TRUE
    ELSE /\ (enabled => probe = "p200")
         /\ cs \subseteq {"json_ok", "empty", "malformed", "malformed_500"}

\* Everything a _chat_json / _chat_text call can come to at time t, with
\* shape telling whether the call met no fault (OnlyShape).
ChatJsonResults(t, uu, enabled) ==
    UNION { UNION { { LET r == _chat_json(t, uu, enabled, probe, c1, c2)
                      IN  [ok |-> r.ok, exc |-> r.exc, events |-> r.events,
                           until |-> r.until,
                           shape |-> OnlyShape(t, uu, enabled, probe, {c1, c2})] :
                      c2 \in SecondInputs(c1) } :
                    c1 \in FirstInputs(probe) } :
            probe \in ProbeInputs(t, uu, enabled) }

ChatTextResults(t, uu, enabled) ==
    UNION { { LET r == _chat_text(t, uu, enabled, probe, c)
              IN  [ok |-> r.ok, content |-> r.content, exc |-> r.exc,
                   events |-> r.events, until |-> r.until,
                   shape |-> OnlyShape(t, uu, enabled, probe, {c})] :
              c \in FirstInputs(probe) } :
            probe \in ProbeInputs(t, uu, enabled) }

\* time.time() advances (between controller calls; one controller call is
\* taken to fall within one second).
Tick ==
    /\ UNCHANGED nonProvVars
    /\ now < MaxTime
    /\ cpc = "idle"
    /\ now' = now + 1
    /\ UNCHANGED <<chain, unhealthy_until, cpc, lpc, op, netlog, tripped, calls,
                   first_exc, second_exc, ret, ncalls, only_shape>>

\* llm_provider.py 1497-1498 / 1523-1524: the controller is called and builds
\* its clients; a LocalVLLMClient starts with _unhealthy_until = 0.0.
Begin ==
    /\ UNCHANGED nonProvVars
    /\ cpc = "idle"
    /\ ncalls < MaxCalls
    /\ ncalls' = ncalls + 1
    /\ \E o \in {"review", "fix"}, c \in _build_client_chain :
         /\ op' = o
         /\ chain' = c
    /\ unhealthy_until' = 0
    /\ cpc' = "primary"
    /\ lpc' = "attempt1"
    /\ calls' = [primary |-> 0, fallback |-> 0]
    /\ first_exc' = NoExc
    /\ second_exc' = NoExc
    /\ ret' = NoOutcome
    /\ netlog' = <<>>
    /\ only_shape' = TRUE
    /\ tripped' = tripped \cup {netlog[i] : i \in {j \in 1..Len(netlog) : ServerTrip(netlog[j])}}
    /\ UNCHANGED now

\* RemoteLLMClient.review_contract / fix_ocr_text.
RemoteCall ==
    /\ UNCHANGED nonProvVars
    /\ Current = "remote"
    /\ calls' = [calls EXCEPT ![cpc] = @ + 1]
    /\ \E ok \in BOOLEAN : IF ok THEN Returns("remote") ELSE Raises(RemoteExc)
    /\ UNCHANGED <<now, chain, unhealthy_until, op, netlog, tripped, ncalls, only_shape>>

\* LocalVLLMClient.review_contract 1397-1420: one pass of the attempts loop.
LocalReviewJson ==
    /\ UNCHANGED nonProvVars
    /\ Current = "local_vllm"
    /\ op = "review"
    /\ lpc \in {"attempt1", "attempt2"}
    /\ Entered
    /\ \E r \in ChatJsonResults(now, unhealthy_until, chain.healthcheck) :
         LET aggressive == lpc = "attempt2"
         IN /\ netlog' = netlog \o r.events
            /\ unhealthy_until' = r.until
            /\ only_shape' = (only_shape /\ r.shape)
            /\ IF r.ok THEN Returns("json")
               ELSE IF _is_json_parse_failure(r.exc)
               THEN /\ lpc' = IF aggressive THEN "template" ELSE "attempt2"
                    /\ UNCHANGED <<cpc, first_exc, second_exc, ret>>
               ELSE Raises(r.exc)
    /\ UNCHANGED <<now, chain, op, tripped, ncalls>>

\* LocalVLLMClient.review_contract 1412-1417: _review_via_text_template.
LocalReviewTemplate ==
    /\ UNCHANGED nonProvVars
    /\ Current = "local_vllm"
    /\ op = "review"
    /\ lpc = "template"
    /\ \E r \in ChatTextResults(now, unhealthy_until, chain.healthcheck) :
         /\ netlog' = netlog \o r.events
         /\ unhealthy_until' = r.until
         /\ only_shape' = (only_shape /\ r.shape)
         /\ IF r.ok THEN Returns(IF r.content THEN "template" ELSE "rules")
            ELSE Raises(r.exc)
    /\ UNCHANGED <<now, chain, op, tripped, calls, ncalls>>

\* LocalVLLMClient.fix_ocr_text 1426-1450.
LocalFix ==
    /\ UNCHANGED nonProvVars
    /\ Current = "local_vllm"
    /\ op = "fix"
    /\ calls' = [calls EXCEPT ![cpc] = @ + 1]
    /\ \E blank \in BOOLEAN, r \in ChatTextResults(now, unhealthy_until, chain.healthcheck) :
            IF blank
            THEN /\ Returns("raw_text")
                 /\ UNCHANGED <<netlog, unhealthy_until, only_shape>>
            ELSE /\ netlog' = netlog \o r.events
                 /\ unhealthy_until' = r.until
                 /\ only_shape' = (only_shape /\ r.shape)
                 /\ IF r.ok THEN Returns(IF r.content THEN "fixed" ELSE "raw_text")
                    ELSE Raises(r.exc)
    /\ UNCHANGED <<now, chain, op, tripped, ncalls>>

ProvInit ==
    /\ PipeIdle
    /\ ProvIdle
    /\ RevIdle
    /\ FitIdle
    /\ CbIdle
    /\ JobIdle

ProvNext ==
    \/ Tick
    \/ Begin
    \/ RemoteCall
    \/ LocalReviewJson
    \/ LocalReviewTemplate
    \/ LocalFix

SpecProvider == ProvInit /\ [][ProvNext]_vars


\* ------------------------------------------------------------------------
\* claims about the failover controller and the local provider's breaker
\* ------------------------------------------------------------------------
IsPrefix(a, b) == Len(a) <= Len(b) /\ SubSeq(b, 1, Len(a)) = a

IsInfix(a, b) ==
    \E i \in 0..(Len(b) - Len(a)) : SubSeq(b, i + 1, i + Len(a)) = a

\* The controller call has returned or raised.
Finished == cpc = "idle" /\ ret.kind # "none"

\* C19: in LocalVLLMClient.review_contract the ladder moves to its next
\* step (the aggressive retry, then the text template) only after a
\* failure in shape; a step that met a fault of the server or of the
\* transport raises at once and the ladder does not move.
C19_LadderAdvancesOnShapeOnly ==
    [][(cpc # "idle" /\ cpc' = cpc /\ lpc' # lpc) =>
            \A i \in (Len(netlog) + 1)..Len(netlog') :
                ~(netlog'[i].kind = "trip"
                  /\ netlog'[i].cause \in {"server", "transport"})]_vars

\* C20: a review call made of the local provider alone, in which every
\* response was unusable in shape only and no fault of the server or the
\* transport occurred, returns a result and does not raise.
C20_ShapeOnlyReviewReturns ==
    (Finished /\ op = "review" /\ chain.primary = "local_vllm"
        /\ calls.fallback = 0 /\ only_shape) =>
        ret.kind = "result"

\* C21: within one review call, once a request of the local provider has
\* failed on a server-side fault, the next step of the ladder is refused by
\* the cooldown check: nothing is sent (the step logs one fast-fail and
\* nothing else), the local provider raises, and the controller, when the
\* local provider is its primary and a fallback is configured, goes on to
\* the fallback provider.
C21_NextAttemptFailsFast ==
    [][(/\ Current = "local_vllm"
        /\ op = "review"
        /\ lpc \in {"attempt2", "template"}
        /\ \E i \in 1..Len(netlog) : ServerTrip(netlog[i])) =>
            /\ netlog' = Append(netlog, Event("fastfail", now, "-"))
            /\ lpc' = "attempt1"
            /\ IF cpc = "primary"
               THEN /\ first_exc' # NoExc
                    /\ (chain.fallback # "none" => cpc' = "fallback")
               ELSE /\ second_exc' # NoExc
                    /\ ret'.kind = "raised"]_vars

\* The first structured request met a 502, the aggressive attempt was
\* refused without a request, and the fallback provider gave the result.
C21_Witness ==
    /\ Finished
    /\ op = "review"
    /\ chain.primary = "local_vllm"
    /\ Len(netlog) = 3
    /\ netlog[1].kind = "completion"
    /\ ServerTrip(netlog[2])
    /\ netlog[3].kind = "fastfail"
    /\ ret.kind = "result"
    /\ ret.role = "fallback"
    /\ calls.fallback = 1

\* C6: in a controller call (review_contract or fix_ocr_text) each provider
\* is called at most once; the fallback is called iff the primary raised and
\* a fallback is configured; a result that came from the fallback is tagged
\* fallback_used = TRUE, names both providers and records the leading (at
\* most 500) characters of the primary's error text; a result from the
\* primary is tagged fallback_used = FALSE; when both raise, one error whose
\* text holds both failures is raised; without a fallback the primary's own
\* exception propagates.
C6_Failover ==
    /\ calls.primary <= 1
    /\ calls.fallback <= 1
    /\ calls.fallback = 1 => (first_exc # NoExc /\ chain.fallback # "none")
    /\ Finished =>
         /\ calls.primary = 1
         /\ calls.fallback = 1 <=> (first_exc # NoExc /\ chain.fallback # "none")
         /\ (ret.kind = "result" /\ ret.role = "primary") =>
              /\ first_exc = NoExc
              /\ ret.meta.fallback_used = FALSE
              /\ ret.meta.provider = chain.primary
         /\ (ret.kind = "result" /\ ret.role = "fallback") =>
              /\ first_exc # NoExc
              /\ ret.meta.fallback_used = TRUE
              /\ ret.meta.provider = chain.fallback
              /\ ret.meta.fallback_from = chain.primary
              /\ ret.meta.fallback_reason # <<>>
              /\ IsPrefix(ret.meta.fallback_reason, first_exc.text)
              /\ StrLen(ret.meta.fallback_reason) <= FallbackReasonMaxChars
              /\ (StrLen(first_exc.text) <= FallbackReasonMaxChars
                    => ret.meta.fallback_reason = first_exc.text)
         /\ (ret.kind = "raised" /\ ret.role = "fallback") =>
              /\ first_exc # NoExc
              /\ second_exc # NoExc
              /\ IsInfix(first_exc.text, ret.exc.text)
              /\ IsInfix(second_exc.text, ret.exc.text)
              /\ Mentions(ret.exc.text, "primary=" \o chain.primary)
              /\ Mentions(ret.exc.text, "fallback=" \o chain.fallback)
         /\ (ret.kind = "raised" /\ ret.role = "primary") =>
              /\ chain.fallback = "none"
              /\ ret.exc = first_exc

\* The local primary failed on a 502 whose body makes the error text longer
\* than 500 characters, and the remote fallback produced the result.
C6_Witness ==
    /\ Finished
    /\ ret.kind = "result"
    /\ ret.role = "fallback"
    /\ chain.primary = "local_vllm"
    /\ ret.meta.fallback_used
    /\ Len(ret.meta.fallback_reason) < Len(first_exc.text)

Contact(e) == e.kind \in {"probe", "completion"}

\* C7: once a probe or a completion request of the local provider has failed
\* on a server-side fault and tripped the breaker at time t, no health probe
\* and no completion request is issued before t + Cooldown, neither by the
\* same client nor by the client of a later controller call.
C7_CooldownFailsFast ==
    \A i \in 1..Len(netlog) :
        Contact(netlog[i]) =>
          /\ \A tr \in tripped :
                 ServerTrip(tr) => ~(tr.t <= netlog[i].t /\ netlog[i].t < tr.t + Cooldown)
          /\ \A j \in 1..(i - 1) :
                 ServerTrip(netlog[j]) => ~(netlog[i].t < netlog[j].t + Cooldown)

\* C8: every trip of the breaker (every assignment of _unhealthy_until) is
\* caused by a server-side fault; malformed JSON, empty content, a 4xx and
\* other faults that are not the server's leave _unhealthy_until as it was.
C8_OnlyServerFaultsTrip ==
    \A i \in 1..Len(netlog) : netlog[i].kind = "trip" => netlog[i].cause = "server"


\* ------------------------------------------------------------------------
\* review post-processing (llm_client.py, llm_provider.py)
\* ------------------------------------------------------------------------
\* Texts are drawn from a small vocabulary; the string functions of the
\* source are given by what they return on it.  "fengxiandian1:s1" stands
\* for "风险点1:s1" and "shibie cuowu" for "识别错误".

MaxRiskItems == 2

\* merge_cap = min(12, max(4, LOCAL_VLLM_RULE_MAX_ITEMS or 8))
merge_cap == 8

\* len(dedup) >= 10: break
MaxNormalizedItems == 10

\* str.strip()
Strip(t) == IF t = " " THEN "" ELSE t

\* str.lower()
Lower(t) == IF t = "S1" THEN "s1" ELSE t

\* llm_client._clean_suggestion_text: the reference to a risk point ("风险点1:",
\* "RISK-1") is removed, then blanks and punctuation are stripped.  Each
\* re.sub makes one pass: removing "RISK-1" from "RISK RISK-1 1 x" leaves
\* "RISK  1 x", which the blank-collapsing turns into "RISK 1 x".
_clean_suggestion_text(t) ==
    CASE t \in {Absent, "", " "} -> ""
      [] t = "fengxiandian1:s1" -> "s1"
      [] t = "RISK-1" -> ""
      [] t = "RISK RISK-1 1 x" -> "RISK 1 x"
      [] t = "RISK 1 x" -> "x"
      [] OTHER -> t

\* llm_client._normalize_narrative_cn_text: none of the vocabulary holds one of
\* the English terms it replaces, so only strip() acts.
_normalize_narrative_cn_text(t) == Strip(t)

\* llm_client._contains_ocr_noise_claim: "di3tiao shibie cuowu" stands for a
\* text with "第3条" and "识别错误" in it.
_contains_ocr_noise_claim(t) == t \in {"shibie cuowu", "di3tiao shibie cuowu"}

StrItem(t) == [type |-> "str", problem |-> t, suggestion |-> Absent, advice |-> Absent]

DictItem(p, sug, adv) == [type |-> "dict", problem |-> p, suggestion |-> sug, advice |-> adv]

\* llm_client._first_non_empty_text over the item's suggestion keys.
_first_non_empty_text(item) ==
    IF item.suggestion # Absent /\ Strip(item.suggestion) # "" THEN Strip(item.suggestion)
    ELSE IF item.advice # Absent /\ Strip(item.advice) # "" THEN Strip(item.advice)
    ELSE ""

\* llm_client._item_text_blob has an OCR-noise claim in it.
NoiseItem(item) ==
    \E f \in {"problem", "suggestion", "advice"} : _contains_ocr_noise_claim(item[f])

\* llm_client._has_legal_clause_evidence: a dict item whose text holds a
\* clause anchor ("第3条", "条款", "违约", ...).
_has_legal_clause_evidence(item) ==
    /\ item.type = "dict"
    /\ \E f \in {"problem", "suggestion", "advice"} : item[f] = "di3tiao shibie cuowu"

\* llm_client._filter_ocr_noise_items 489-504: an item with a noise claim is
\* dropped when REPORT_HIDE_TECH_DEFECTS is on, and when it has no clause
\* evidence; a string item is dropped as well when the flag is on and the
\* string holds one of 系统, 模型, 技术, 识别, OCR, 噪声, 乱码 ("jishu fuwu"
\* stands for "技术服务").
_filter_ocr_noise_items(v) ==
    IF v.kind # "list" THEN v
    ELSE List(SelectSeq(v.items, LAMBDA item :
            /\ ~(NoiseItem(item)
                 /\ (hide_tech_defects \/ ~_has_legal_clause_evidence(item)))
            /\ ~(/\ item.type = "str"
                 /\ hide_tech_defects
                 /\ item.problem \in {"shibie cuowu", "di3tiao shibie cuowu",
                                      "jishu fuwu"})))

FilteredKeys == {"fengxiandian", "gaijin_cuoshi", "risks", "risk_points", "improvements"}

\* _postprocess_review_json._filter_node
_filter_node(node) ==
    [k \in NodeKeys |-> IF k \in FilteredKeys THEN _filter_ocr_noise_items(node[k]) ELSE node[k]]

NormalizeField(t) == IF t = Absent THEN Absent ELSE _normalize_narrative_cn_text(t)

\* llm_client._normalize_review_language_fields
_normalize_review_language_fields(node) ==
    [k \in NodeKeys |->
        IF k \in FilteredKeys /\ node[k].kind = "list"
        THEN List([i \in 1..Len(node[k].items) |->
                     LET item == node[k].items[i]
                     IN [type |-> item.type,
                         problem |-> NormalizeField(item.problem),
                         suggestion |-> NormalizeField(item.suggestion),
                         advice |-> NormalizeField(item.advice)]])
        ELSE node[k]]

\* The items whose key (lower-cased, stripped text of the field) is not
\* empty and was not seen before.
RECURSIVE DedupeFrom(_, _, _)
DedupeFrom(items, seen, field) ==
    IF items = <<>> THEN <<>>
    ELSE LET key == Lower(Strip(Head(items)[field]))
         IN IF key = "" \/ key \in seen
            THEN DedupeFrom(Tail(items), seen, field)
            ELSE <<Head(items)>> \o DedupeFrom(Tail(items), seen \cup {key}, field)

FirstN(items, n) == SubSeq(items, 1, IF Len(items) < n THEN Len(items) ELSE n)

\* llm_client._normalize_improvement_item
_normalize_improvement_item(item) ==
    DictItem("", _clean_suggestion_text(IF item.type = "str" THEN item.problem
                                        ELSE _first_non_empty_text(item)), Absent)

\* _process_node: the first of "风险点", "risks", "risk_points" that holds a list.
risk_key_found(node) ==
    IF node["fengxiandian"].kind = "list" THEN "fengxiandian"
    ELSE IF node["risks"].kind = "list" THEN "risks"
    ELSE IF node["risk_points"].kind = "list" THEN "risk_points"
    ELSE "none"

Blank(t) == IF t = Absent THEN Absent ELSE ""

\* llm_client._enforce_risk_suggestion_split._process_node
_process_node(node) ==
    LET found == risk_key_found(node)
        risks == IF found = "none" THEN <<>> ELSE node[found].items
        dicts == SelectSeq(risks, LAMBDA item : item.type = "dict")
        moved == SelectSeq([i \in 1..Len(dicts) |->
                              StrItem(_clean_suggestion_text(_first_non_empty_text(dicts[i])))],
                           LAMBDA m : m.problem # "")
        normalized_risks ==
            [i \in 1..Len(risks) |->
                IF risks[i].type = "dict"
                THEN [risks[i] EXCEPT !.suggestion = Blank(@), !.advice = Blank(@)]
                ELSE risks[i]]
        improvement_raw ==
            (IF node["gaijin_cuoshi"].kind = "list" THEN node["gaijin_cuoshi"].items ELSE <<>>)
            \o (IF node["improvements"].kind = "list" THEN node["improvements"].items ELSE <<>>)
            \o moved
        ordered_items ==
            DedupeFrom([i \in 1..Len(improvement_raw) |->
                          _normalize_improvement_item(improvement_raw[i])], {}, "suggestion")
    IN [k \in NodeKeys |->
          CASE k \in {"gaijin_cuoshi", "improvements"} -> List(ordered_items)
            [] found # "none" /\ k \in {found, "fengxiandian", "risks"} -> List(normalized_risks)
            [] OTHER -> node[k]]

\* llm_client._postprocess_review_json on the JSON that reaches the split
\* (the Chinese rewrite, when one was accepted, has taken the model output's
\* place).
_postprocess_review_json(data) ==
    _process_node(_normalize_review_language_fields(_filter_node(data)))


\* Python truth value of a value found under a key.
Truthy(v) == v.kind = "dict" \/ (v.kind = "list" /\ v.items # <<>>)

\* a or b
PyOr(a, b) == IF Truthy(a) THEN a ELSE b

\* LocalVLLMClient._normalize_risk_items: every item becomes
\* {title, level, problem, suggestion: ""}; an item's suggestion text is used
\* only as the problem when the item describes no problem.
_normalize_risk_items(v) ==
    IF v.kind # "list" THEN <<>>
    ELSE LET problem(item) ==
                 IF item.type = "str" THEN Strip(item.problem)
                 ELSE IF item.problem # Absent /\ Strip(item.problem) # "" THEN Strip(item.problem)
                 ELSE IF item.suggestion # Absent /\ Strip(item.suggestion) # ""
                      THEN Strip(item.suggestion)
                 ELSE "fengxiandian"
         IN FirstN(DedupeFrom([i \in 1..Len(v.items) |->
                                  DictItem(problem(v.items[i]), "", Absent)],
                               {}, "problem"), MaxNormalizedItems)

\* LocalVLLMClient._normalize_improvement_items
_normalize_improvement_items(v) ==
    IF v.kind # "list" THEN <<>>
    ELSE LET problem(item) == IF item.problem = Absent THEN "" ELSE Strip(item.problem)
             suggestion(item) ==
                 IF item.type = "str" THEN Strip(item.problem)
                 ELSE IF _first_non_empty_text(item) # "" THEN _first_non_empty_text(item)
                 ELSE IF problem(item) # "" THEN problem(item)
                 ELSE "gaijin jianyi"
         IN FirstN(DedupeFrom([i \in 1..Len(v.items) |->
                                  DictItem(IF v.items[i].type = "str" THEN ""
                                           ELSE problem(v.items[i]),
                                           suggestion(v.items[i]), Absent)],
                               {}, "suggestion"), MaxNormalizedItems)

\* LocalVLLMClient._build_rule_based_review: the findings the rules draw from
\* the contract text (never none: a finding is added when no rule fires).
RuleReview ==
    [risks |-> List(<<DictItem("rule risk", "", Absent)>>),
     improvements |-> List(<<DictItem("", "rule advice", Absent)>>)]

\* _merge_review_with_rule_hints 1189-1216: the rule's items are appended to
\* the model's while they are new and the list is shorter than merge_cap.
RECURSIVE MergeItems(_, _, _)
MergeItems(items, extra, field) ==
    IF extra = <<>> \/ Len(items) >= merge_cap THEN items
    ELSE LET key == Lower(Strip(Head(extra)[field]))
         IN IF key = "" \/ \E i \in 1..Len(items) : Lower(Strip(items[i][field])) = key
            THEN MergeItems(items, Tail(extra), field)
            ELSE MergeItems(Append(items, Head(extra)), Tail(extra), field)

\* LocalVLLMClient._merge_review_with_rule_hints: merged = dict(review_data),
\* then "risks"/"风险点" and "improvements"/"改进措施" are replaced.
_merge_review_with_rule_hints(review_data) ==
    LET risks == MergeItems(
                     _normalize_risk_items(PyOr(review_data["risks"], review_data["fengxiandian"])),
                     _normalize_risk_items(RuleReview.risks), "problem")
        improvements ==
            MergeItems(
                _normalize_improvement_items(
                    PyOr(review_data["improvements"], review_data["gaijin_cuoshi"])),
                _normalize_improvement_items(RuleReview.improvements), "suggestion")
    IN [k \in NodeKeys |->
          CASE k \in {"risks", "fengxiandian"} -> List(risks)
            [] k \in {"improvements", "gaijin_cuoshi"} -> List(improvements)
            [] OTHER -> review_data[k]]

\* llm_provider._postprocess_local_review_json (force_chinese = False)
_postprocess_local_review_json(data) == _postprocess_review_json(data)

\* The risk items a model can return: a plain string, an object whose
\* suggestion is missing, empty, plain, or a reference to a risk point, an
\* object with two suggestion fields, an object with only an advice field and
\* an OCR-noise claim, an OCR-noise claim that cites a clause, and a string
\* about a technical service.
ModelRiskItems ==
    {StrItem("p0")}
    \cup {DictItem("p1", sug, Absent) : sug \in {Absent, "", " ", "s1", "S1", "fengxiandian1:s1", "RISK-1"}}
    \cup {DictItem("p2", "s1", "s2"), DictItem("p2", Absent, "s2"),
          DictItem("shibie cuowu", "s1", Absent),
          DictItem("di3tiao shibie cuowu", "s1", Absent), StrItem("jishu fuwu")}

BoundedSeqs(S, n) == UNION {[1..k -> S] : k \in 0..n}

\* The review JSON a model can return: "风险点" missing, a single object, or a
\* list; the other keys missing or holding one item.
ModelOutputs ==
    { [k \in NodeKeys |->
         CASE k = "fengxiandian" -> fxd
           [] k = "risks" -> IF o[1] THEN List(<<DictItem("p3", "s3", Absent)>>) ELSE None
           [] k = "risk_points" -> IF o[2] THEN List(<<DictItem("p4", "s4", Absent)>>) ELSE None
           [] k = "fengxiandian_ji_jianyi" ->
                IF o[3] THEN List(<<DictItem("p5", "s5", Absent)>>) ELSE None
           [] k = "gaijin_cuoshi" ->
                IF o[4] THEN List(<<StrItem("s1"), StrItem("RISK RISK-1 1 x")>>) ELSE None
           [] OTHER -> IF o[5] THEN List(<<DictItem("", "S1", Absent)>>) ELSE None] :
        fxd \in {None, Obj(DictItem("p1", "s1", Absent))}
                \cup {List(items) : items \in BoundedSeqs(ModelRiskItems, MaxRiskItems)},
        o \in [1..5 -> BOOLEAN] }

\* English fragments counted in one JSON.
MaxFragments == 1

\* _postprocess_review_json 661-680: with force_chinese on the fragments are
\* counted and, with en_count > 0, one rewrite is asked for; it raises or
\* returns a JSON with new_count fragments, which takes the place of the
\* output when new_count <= en_count.
RewriteStep(force_chinese, en_count, raises, new_count) ==
    IF ~force_chinese THEN NoRewrite
    ELSE IF en_count = 0 THEN [NoRewrite EXCEPT !.force_chinese = TRUE]
    ELSE IF raises
    THEN [force_chinese |-> TRUE, en_count |-> en_count, calls |-> 1,
          outcome |-> "raised", new_count |-> 0, used |-> "original"]
    ELSE [force_chinese |-> TRUE, en_count |-> en_count, calls |-> 1,
          outcome |-> "returned", new_count |-> new_count,
          used |-> IF new_count <= en_count THEN "rewritten" ELSE "original"]

\* qwen_plus_review 748-749: the remote provider's result; force_chinese is
\* REVIEW_FORCE_CHINESE.
RemoteReview ==
    /\ UNCHANGED nonRevVars
    /\ rpc = "model_returned"
    /\ \E force_chinese \in BOOLEAN, en_count \in 0..MaxFragments,
          raises \in BOOLEAN, new_count \in 0..(MaxFragments + 1) :
         rewrite' = RewriteStep(force_chinese, en_count, raises, new_count)
    /\ result' = _postprocess_review_json(model_out)
    /\ path' = "remote"
    /\ rpc' = "returned"
    /\ UNCHANGED <<model_out, hide_tech_defects>>

\* LocalVLLMClient.review_contract 1408-1409 / 1416-1417: the local provider's
\* result; _postprocess_local_review_json passes force_chinese=False.
LocalReview ==
    /\ UNCHANGED nonRevVars
    /\ rpc = "model_returned"
    /\ result' = _postprocess_local_review_json(_merge_review_with_rule_hints(model_out))
    /\ rewrite' = RewriteStep(FALSE, 0, FALSE, 0)
    /\ path' = "local_vllm"
    /\ rpc' = "returned"
    /\ UNCHANGED <<model_out, hide_tech_defects>>

RevInit ==
    /\ PipeIdle
    /\ ProvIdle
    /\ FitIdle
    /\ CbIdle
    /\ JobIdle
    /\ rpc = "model_returned"
    /\ model_out \in ModelOutputs
    /\ path = "none"
    /\ result = EmptyNode
    /\ hide_tech_defects \in BOOLEAN
    /\ rewrite = NoRewrite

RevNext ==
    \/ RemoteReview
    \/ LocalReview

SpecReview == RevInit /\ [][RevNext]_vars

\* ------------------------------------------------------------------------
\* reading the findings of a result (contract_review/views.py)
\* ------------------------------------------------------------------------
\* views._extract_review_items(result_json, ["风险点", "risks", "risk_points",
\* "风险点及建议"]): the risk items of a result are the first value under these
\* keys that is not None, as a list.
_extract_review_items(node) ==
    IF node["fengxiandian"].kind # "none" THEN node["fengxiandian"].items
    ELSE IF node["risks"].kind # "none" THEN node["risks"].items
    ELSE IF node["risk_points"].kind # "none" THEN node["risk_points"].items
    ELSE node["fengxiandian_ji_jianyi"].items

\* views._normalize_review_item: the problem and the suggestion an item carries.
_normalize_review_item(item) ==
    [problem |-> item.problem,
     suggestion |-> IF item.type = "str" THEN "" ELSE _first_non_empty_text(item)]

\* The risk findings a result carries.
RiskFindings(node) ==
    [i \in 1..Len(_extract_review_items(node)) |->
        _normalize_review_item(_extract_review_items(node)[i])]

\* The suggestion texts of the result's improvement list.
ImprovementTexts(node) ==
    {node["improvements"].items[i].suggestion : i \in 1..Len(node["improvements"].items)}

\* ------------------------------------------------------------------------
\* claims about the separation of risks and suggestions
\* ------------------------------------------------------------------------
\* C9: in a result returned by Review, by the remote or the local provider,
\* no risk finding carries a suggestion that is not empty.
C9_NoRiskCarriesSuggestion ==
    rpc = "returned" =>
        \A i \in 1..Len(RiskFindings(result)) : RiskFindings(result)[i].suggestion = ""

\* C10: when the model's risk list holds an item with a populated suggestion
\* field (and the item is not dropped as an OCR-noise claim), the returned
\* result shows no risk finding with a suggestion and its improvement list
\* holds the suggestion text (as _clean_suggestion_text leaves it).
C10_SuggestionMovedToImprovements ==
    (rpc = "returned" /\ model_out["fengxiandian"].kind = "list") =>
        \A i \in 1..Len(model_out["fengxiandian"].items) :
            LET item == model_out["fengxiandian"].items[i]
            IN (item.type = "dict" /\ ~NoiseItem(item)
                  /\ item.suggestion # Absent /\ Strip(item.suggestion) # "") =>
                 /\ \A j \in 1..Len(RiskFindings(result)) :
                        RiskFindings(result)[j].suggestion = ""
                 /\ \E t \in ImprovementTexts(result) :
                        Lower(t) \in {Lower(Strip(item.suggestion)),
                                      Lower(_clean_suggestion_text(item.suggestion))}

\* C11: the risk/suggestion split is idempotent: applied to its own output
\* it yields the same risks and the same improvement entries in the same
\* order (the titles "建议<idx>" follow the order).
C11_SplitIdempotent ==
    rpc = "returned" =>
        \A k \in {"fengxiandian", "risks", "gaijin_cuoshi", "improvements"} :
            _process_node(result)[k] = result[k]

\* C24: of the risk findings the model returned, post-processing removes
\* exactly those that describe an extraction-quality defect and cite no
\* contractual clause: a defect finding that cites a clause is kept, and a
\* finding that mentions no defect is kept.
C24_DefectRemovedUnlessClauseCited ==
    (rpc = "returned" /\ path = "remote" /\ model_out["fengxiandian"].kind = "list") =>
        \A i \in 1..Len(model_out["fengxiandian"].items) :
            LET item == model_out["fengxiandian"].items[i]
                cites_clause ==
                    \E f \in {"problem", "suggestion", "advice"} :
                        item[f] = "di3tiao shibie cuowu"
                kept == \E j \in 1..Len(RiskFindings(result)) :
                            RiskFindings(result)[j].problem = item.problem
            IN  kept <=> ~(NoiseItem(item) /\ ~cites_clause)

\* C25: one post-processing pass asks for at most one rewrite, and only when
\* the count of foreign fragments is above zero; the rewritten JSON takes the
\* place of the original only when the rewrite returned and its count is
\* strictly lower.
C25_RewriteAcceptedOnlyIfFewer ==
    rpc = "returned" =>
        /\ rewrite.calls <= 1
        /\ (rewrite.calls = 1 => rewrite.en_count > 0)
        /\ (rewrite.used = "rewritten" =>
                /\ rewrite.outcome = "returned"
                /\ rewrite.new_count < rewrite.en_count)


\* ------------------------------------------------------------------------
\* LocalVLLMClient._fit_messages_to_context (llm_provider.py 270-311)
\* ------------------------------------------------------------------------
\* The messages are one system message of sys estimated tokens and, with
\* has_user, one user message of chars characters of contract text (CJK text
\* without punctuation: one estimated token per character); marked says that
\* the text holds the 31-character truncation marker, which is estimated at
\* 8 + 6 tokens.

\* _estimate_text_tokens of the user content.
_estimate_text_tokens(chars, marked) ==
    IF chars = 0 THEN 0 ELSE IF marked THEN chars - 31 + 14 ELSE chars

\* _estimate_messages_tokens
_estimate_messages_tokens(f) ==
    6 + 8 + f.sys + (IF f.has_user THEN 8 + _estimate_text_tokens(f.chars, f.marked) ELSE 0)
      + (IF f.chars2 > 0 THEN 8 + _estimate_text_tokens(f.chars2, f.marked2) ELSE 0)

Max(a, b) == IF a >= b THEN a ELSE b

Min(a, b) == IF a <= b THEN a ELSE b

\* 296-302: next_chars = max(80, int(len(content) * keep_ratio * 0.9)) with
\* keep_ratio = max(0.35, min(0.95, (current_tokens - over) / current_tokens)).
next_chars(f, over) ==
    LET cur == _estimate_text_tokens(f.chars, f.marked)
        scaled == IF (cur - over) * 100 < 35 * cur THEN (f.chars * 315) \div 1000
                  ELSE IF (cur - over) * 100 > 95 * cur THEN (f.chars * 855) \div 1000
                  ELSE (f.chars * (cur - over) * 9) \div (cur * 10)
    IN Max(80, scaled)

\* The configurations (LocalVLLMConfig.from_env keeps context_window >= 128,
\* min_output_tokens >= 8, context_safety_margin >= 8, max_tokens >= 16), the
\* desired output lengths of the callers and the messages: a system message
\* of sys tokens, a user message of chars characters and, when chars2 > 0, a
\* second user message of chars2 characters.
FitInputs ==
    { [pc |-> "loop", i |-> 0, exit |-> "none", out |-> 0,
       context_window |-> cw, min_output_tokens |-> mo, context_safety_margin |-> 16,
       cfg_max_tokens |-> mt, desired_max_tokens |-> Max(mt, d),
       max_tokens |-> Max(mo, Min(Max(8, Max(mt, d)), Max(8, cw \div 3))),
       sys |-> sy, has_user |-> hu, chars |-> IF hu THEN ch ELSE 0, marked |-> FALSE,
       chars2 |-> IF hu THEN ch2 ELSE 0, marked2 |-> FALSE] :
        cw \in {128, 256, 2048}, mo \in {8, 24}, mt \in {16, 48}, d \in {0, 48, 64},
        sy \in {30, 120}, hu \in BOOLEAN, ch \in {0, 40, 200, 700}, ch2 \in {0, 300} }

\* One pass of `for _ in range(8)`, or the statement after the loop.
FitIteration ==
    /\ UNCHANGED <<pipeVars, provVars, revVars, cb, job>>
    /\ fit.pc = "loop"
    /\ LET input_budget == fit.context_window - fit.max_tokens - fit.context_safety_margin
           estimate == _estimate_messages_tokens(fit)
           best_effort == [fit EXCEPT !.pc = "returned", !.exit = "best_effort",
                                      !.out = Max(8, Min(fit.max_tokens, fit.cfg_max_tokens))]
           nc == next_chars(fit, estimate - input_budget)
           nc2 == next_chars([chars |-> fit.chars2, marked |-> fit.marked2],
                             estimate - input_budget)
           \* 290-305: a user message is cut when it has content, more than
           \* 48 tokens and _truncate_for_prompt changes it
           cut == /\ fit.has_user /\ fit.chars > 0
                  /\ _estimate_text_tokens(fit.chars, fit.marked) > 48
                  /\ fit.chars > nc
           cut2 == /\ fit.chars2 > 0
                   /\ _estimate_text_tokens(fit.chars2, fit.marked2) > 48
                   /\ fit.chars2 > nc2
       IN fit' =
            IF fit.i = 8 THEN best_effort
            ELSE IF estimate <= input_budget
            THEN [fit EXCEPT !.pc = "returned", !.exit = "in_loop", !.out = fit.max_tokens]
            ELSE IF fit.max_tokens > fit.min_output_tokens
            THEN [fit EXCEPT !.max_tokens = Max(fit.min_output_tokens, fit.max_tokens - 8),
                             !.i = @ + 1]
            ELSE IF ~cut /\ ~cut2
            THEN best_effort
            ELSE [fit EXCEPT
                    !.chars = IF cut THEN nc ELSE @,
                    !.marked = IF cut THEN (nc - (nc * 3) \div 4 - 31 > 0) ELSE @,
                    !.chars2 = IF cut2 THEN nc2 ELSE @,
                    !.marked2 = IF cut2 THEN (nc2 - (nc2 * 3) \div 4 - 31 > 0) ELSE @,
                    !.i = @ + 1]

FitInit ==
    /\ PipeIdle
    /\ ProvIdle
    /\ RevIdle
    /\ CbIdle
    /\ JobIdle
    /\ fit \in FitInputs

SpecFit == FitInit /\ [][FitIteration]_vars

\* C12: the resolved max output token count _fit_messages_to_context returns
\* is at least min_output_tokens, on the return inside the loop and on the
\* return after the loop.
C12_FitKeepsMinOutput ==
    fit.pc = "returned" => fit.out >= fit.min_output_tokens

\* C23: a pass of the loop that changes message content runs only when the
\* output budget is down at min_output_tokens, and it shortens the longest
\* user message only: the other user message and the system message keep
\* their content.
C23_TruncationOnlyLongestUser ==
    [][(fit.pc = "loop"
        /\ (fit'.chars # fit.chars \/ fit'.chars2 # fit.chars2 \/ fit'.sys # fit.sys)) =>
           /\ fit.max_tokens = fit.min_output_tokens
           /\ fit'.sys = fit.sys
           /\ (fit.chars >= fit.chars2 => fit'.chars2 = fit.chars2)
           /\ (fit.chars2 >= fit.chars => fit'.chars = fit.chars)]_vars


\* ------------------------------------------------------------------
\* notify_django (main.py 162-189): the progress / result callback
\* ------------------------------------------------------------------

\* _env_int (main.py 122-129): unset, empty or unparsable gives the
\* default, otherwise int(raw).
_env_int(raw, default) ==
    CASE raw = "0" -> 0
      [] raw = "-2" -> 0 - 2
      [] raw = "1" -> 1
      [] raw = "2" -> 2
      [] raw = "3" -> 3
      [] OTHER -> default

\* float(os.environ.get("WORKER_CALLBACK_BACKOFF", "1") or "1"):
\* unset and empty read as "1"; anything float() rejects raises.
ParseFloat(raw) ==
    LET text == IF raw = Absent \/ raw = "" THEN "1" ELSE raw
    IN  CASE text = "1" -> [ok |-> TRUE, val |-> 1]
          [] text = "2" -> [ok |-> TRUE, val |-> 2]
          [] text = "-1" -> [ok |-> TRUE, val |-> 0 - 1]
          [] OTHER -> [ok |-> FALSE, val |-> 0]

\* The environment notify_django reads (Absent stands for "not set") and the
\* payload _do_analyze hands it inside its try: the stage of a running
\* update or of the final one. earlier holds the stages of the run's earlier
\* calls that reached a POST.
CbInputs ==
    { [pc |-> "enter", retry_env |-> r, backoff_env |-> b,
       attempts |-> 0, backoff |-> 0, i |-> 0,
       posts |-> <<>>, sleeps |-> <<>>, logged |-> FALSE, raised |-> "none",
       payload |-> st, earlier |-> <<>>] :
        r \in {Absent, "", "0", "-2", "1", "2", "3", "many"},
        b \in {Absent, "", "1", "2", "-1", "slow"},
        st \in {"llm_start", "done"} }

\* Lines 163-170: the settings are read before the loop, outside any try.
notify_django_enter ==
    /\ UNCHANGED <<pipeVars, provVars, revVars, fit, job>>
    /\ cb.pc = "enter"
    /\ LET attempts == _env_int(cb.retry_env, 3)
           parsed == ParseFloat(cb.backoff_env)
       IN  IF ~parsed.ok
           THEN cb' = [cb EXCEPT !.pc = "raised", !.attempts = attempts,
                                 !.raised = "ValueError"]
           ELSE cb' = [cb EXCEPT !.pc = "loop", !.attempts = attempts,
                                 !.backoff = parsed.val]

\* Lines 171-189: one pass of `for i in range(max(attempts, 1))`; the
\* POST ends in HTTP 200, another status, or a transport exception.
notify_django_attempt ==
    /\ UNCHANGED <<pipeVars, provVars, revVars, fit, job>>
    /\ cb.pc = "loop"
    /\ cb.i < Max(cb.attempts, 1)
    /\ \E o \in {"200", "500", "conn_error"} :
        LET posted == [cb EXCEPT !.posts = Append(cb.posts, o)]
        IN  IF o = "200"
            THEN cb' = [posted EXCEPT !.pc = "returned"]
            ELSE IF cb.i < cb.attempts - 1
            THEN \* time.sleep runs inside the except clause
                 IF cb.backoff < 0
                 THEN cb' = [posted EXCEPT !.pc = "raised",
                                           !.raised = "ValueError"]
                 ELSE cb' = [posted EXCEPT
                                !.sleeps = Append(cb.sleeps, cb.backoff * 2^cb.i),
                                !.i = cb.i + 1]
            ELSE cb' = [posted EXCEPT
                            !.logged = TRUE,
                            !.i = cb.i + 1,
                            !.pc = IF cb.i + 1 < Max(cb.attempts, 1)
                                   THEN "loop" ELSE "returned"]

\* main.py 1977-1980: an exception that leaves notify_django inside the try
\* of _do_analyze is caught by its except clause, which calls notify_django
\* with the worker_error payload; an exception of that call leaves
\* _do_analyze.
_do_analyze_except ==
    /\ UNCHANGED <<pipeVars, provVars, revVars, fit, job>>
    /\ cb.pc = "raised"
    /\ cb.payload # "worker_error"
    /\ cb' = [cb EXCEPT !.pc = "enter",
                        !.earlier = IF Len(cb.posts) > 0
                                    THEN Append(@, cb.payload) ELSE @,
                        !.payload = "worker_error",
                        !.attempts = 0, !.backoff = 0, !.i = 0,
                        !.posts = <<>>, !.sleeps = <<>>,
                        !.logged = FALSE, !.raised = "none"]

CbInit ==
    /\ PipeIdle /\ ProvIdle /\ RevIdle /\ FitIdle /\ JobIdle
    /\ cb \in CbInputs

SpecCallback ==
    CbInit /\ [][notify_django_enter \/ notify_django_attempt
                    \/ _do_analyze_except]_vars

\* C13: notify_django makes at most max(WORKER_CALLBACK_RETRY, 1) POSTs
\* for one payload, makes none after the first HTTP 200, sleeps
\* backoff * 2^i between attempt i and attempt i+1, and never raises:
\* after the last failed attempt it logs and returns.
C13_NotifyBoundedNeverRaises ==
    cb.pc # "idle" =>
        /\ cb.pc # "raised"
        /\ cb.pc # "enter" =>
            /\ Len(cb.posts) <= Max(cb.attempts, 1)
            /\ \A n \in 1..Len(cb.posts) :
                cb.posts[n] = "200" => n = Len(cb.posts)
            /\ \A n \in 1..Len(cb.sleeps) :
                cb.sleeps[n] = cb.backoff * 2^(n - 1)

\* C30: when the call that delivers the run's terminal payload (status done
\* or error) has returned, that payload is the only terminal one of the run
\* and the last: no terminal payload was posted by an earlier call.
C30_OneTerminalCallbackLast ==
    (cb.pc = "returned" /\ cb.payload \in {"done", "worker_error"}) =>
        \A n \in 1..Len(cb.earlier) : cb.earlier[n] \notin {"done", "worker_error"}


\* ------------------------------------------------------------------
\* The job store: ContractJob (models.py 3-22) and job_update
\* (views.py 191-308)
\* ------------------------------------------------------------------

\* Updates followed for one job.
MaxUpdates == 2

\* A result_json value: None (isdict FALSE) or a dict, d giving each key's
\* value and Absent for a key the dict does not have. "shifou_gaizhang"
\* stands for the Chinese key written next to stamp_status.
JsonNone ==
    [isdict |-> FALSE,
     d |-> [k \in {"overview", "stamp_status", "shifou_gaizhang", "stamp_evidence",
                   "stamp_error", "result_markdown_truncated", "result_json_raw"}
                |-> Absent]]

\* detect_stamp_status (stamp_detect.py 146-158): YES when the text holds
\* one of the seal keywords, NO otherwise.
detect_stamp_status(text) ==
    IF text = "md_seal"
    THEN [stamp_status |-> "YES", evidence |-> "seal"]
    ELSE [stamp_status |-> "NO", evidence |-> "[]"]

\* The row of a job the worker is about to report on.
JobRows ==
    { [status |-> "running", progress |-> 5, stage |-> "start",
       result_markdown |-> "", result_json |-> JsonNone, error |-> "",
       runtime_meta |-> [keys |-> {}, stageHistory |-> <<>>]],
      [status |-> "running", progress |-> 80, stage |-> "llm_start",
       result_markdown |-> "md1",
       result_json |-> [isdict |-> TRUE,
                        d |-> [JsonNone.d EXCEPT !["overview"] = "o1"]],
       error |-> "",
       runtime_meta |-> [keys |-> {"pages"}, stageHistory |-> <<"start">>]] }

\* views.py 88-96: the row start_analyze creates before it submits the job
\* to the worker.
QueuedRow ==
    [status |-> "queued", progress |-> 0, stage |-> "queued",
     result_markdown |-> "", result_json |-> JsonNone, error |-> "",
     runtime_meta |-> [keys |-> {}, stageHistory |-> <<>>]]

\* The optional fields of a callback payload, Absent for a field the
\* payload does not name. progress is the JSON text of the number;
\* result_markdown "NOT_STR" is a JSON number, "LONG" a text longer than
\* MAX_RESULT_MARKDOWN_CHARS; result_json "dict" is an object with the
\* key overview, "raw" a JSON list.
Payloads ==
    LET All == [status : {Absent, "running", "error"},
                stage : {Absent, "", "llm_start"},
                progress : {Absent, "80", "n/a"},
                result_markdown : {Absent, "md_seal", "LONG", "NOT_STR"},
                error : {Absent, "e1"},
                result_json : {Absent, "dict", "raw"},
                meta : {Absent, "m1"}]
        Named(p) == {f \in DOMAIN p : p[f] # Absent}
    IN  \* payloads naming at most two fields, and the worker's error ones
        {p \in All : Cardinality(Named(p)) <= 2}
        \cup {p \in All :
                /\ p.status = "error" /\ p.stage = "llm_start" /\ p.progress = "80"
                /\ p.error = "e1" /\ p.result_markdown = Absent}

\* views.py 248-284: what the update makes of result_json; raised is TRUE
\* when len(md) fails on a result_markdown that is not a text.
update_result_json(row, p) ==
    LET held == row.result_json
        cur0 == IF held.isdict THEN held.d ELSE JsonNone.d
        md_named == p.result_markdown # Absent
        cur1 == IF p.result_markdown = "LONG"
                THEN [cur0 EXCEPT !["result_markdown_truncated"] = "True"]
                ELSE cur0
        cur2 == CASE p.result_json = "dict" -> [cur1 EXCEPT !["overview"] = "o2"]
                  [] p.result_json = "raw" -> [cur1 EXCEPT !["result_json_raw"] = "raw"]
                  [] OTHER -> cur1
        has_stamp == cur2["stamp_status"] # Absent \/ cur2["shifou_gaizhang"] # Absent
        should_attempt_stamp == md_named \/ p.status \in {"done", "error"}
        text_for_stamp == IF md_named THEN p.result_markdown ELSE row.result_markdown
        stamp == detect_stamp_status(text_for_stamp)
        cur3 == IF ~has_stamp /\ should_attempt_stamp
                THEN [cur2 EXCEPT !["shifou_gaizhang"] =
                                      IF stamp.stamp_status = "YES" THEN "shi" ELSE "fou",
                                  !["stamp_status"] = stamp.stamp_status,
                                  !["stamp_evidence"] = stamp.evidence]
                ELSE cur2
        changed == \/ p.result_markdown = "LONG"
                   \/ p.result_json # Absent
                   \/ (~has_stamp /\ should_attempt_stamp)
    IN  [raised |-> p.result_markdown = "NOT_STR",
         value |-> IF changed THEN [isdict |-> TRUE, d |-> cur3] ELSE held]

\* views.py 223-298: the row job.save leaves behind when nothing raises.
updated_row(row, p) ==
    [status |-> IF p.status # Absent /\ p.status # "" THEN p.status ELSE row.status,
     stage |-> IF p.stage # Absent /\ p.stage # "" THEN p.stage ELSE row.stage,
     progress |-> IF p.progress = "80" THEN 80 ELSE row.progress,
     result_markdown |->
        CASE p.result_markdown = Absent -> row.result_markdown
          [] p.result_markdown = "LONG" -> "LONG_CUT"
          [] OTHER -> p.result_markdown,
     error |-> IF p.error # Absent THEN p.error ELSE row.error,
     result_json |-> update_result_json(row, p).value,
     runtime_meta |-> row.runtime_meta]

\* views.py 300-308: the except clause saves status, progress and error only.
failed_row(row) ==
    [row EXCEPT !.status = "error", !.progress = 100,
                !.error = "job_update failed"]

\* One POST to /contract/api/job/update/. gate is how far the request gets:
\* a wrong worker token (403), a body that is not a JSON object, a missing
\* or non-integer job_id (400), an unknown job (404), or the update itself.
job_update ==
    /\ UNCHANGED <<pipeVars, provVars, revVars, fit, cb>>
    /\ job.pc = "ready"
    /\ job.n < MaxUpdates
    /\ \E p \in Payloads,
          gate \in {"unauthorized", "invalid_json", "missing_job_id",
                    "invalid_job_id", "not_found", "update"} :
         LET raised == update_result_json(job.row, p).raised
             row == IF gate # "update" THEN job.row
                    ELSE IF raised THEN failed_row(job.row)
                    ELSE updated_row(job.row, p)
             code == CASE gate = "unauthorized" -> 403
                       [] gate = "not_found" -> 404
                       [] gate = "update" -> 200
                       [] OTHER -> 400
         IN  job' = [job EXCEPT !.n = job.n + 1,
                                !.by = "job_update",
                                !.prev = job.row,
                                !.row = row,
                                !.payload = p,
                                !.resp = [code |-> code,
                                          ok |-> gate = "update" /\ ~raised]]

\* views.py 114-154: what start_analyze does once its POST to the worker's
\* /analyze is over. The worker has enqueued the task by then (main.py
\* 1983-1992) and the task posts its updates on its own (tasks.py 6-11), so
\* job_update requests may be served before this save. The save writes the
\* columns named in update_fields from the job object read at creation.
start_analyze_save ==
    /\ UNCHANGED <<pipeVars, provVars, revVars, fit, cb>>
    /\ job.pc = "ready"
    /\ job.sa = "submitting"
    /\ \E submitted \in BOOLEAN :
         job' = [job EXCEPT !.sa = "returned",
                            !.by = "start_analyze",
                            !.prev = job.row,
                            !.row = IF submitted
                                    THEN [job.row EXCEPT !.status = "running",
                                                         !.stage = "submitted",
                                                         !.progress = 1]
                                    ELSE [job.row EXCEPT !.status = "error",
                                                         !.error = "submit to worker failed"]]

\* A job whose start_analyze request has returned and that the worker
\* reports on, or a job start_analyze has just created and is submitting.
JobInit ==
    /\ PipeIdle /\ ProvIdle /\ RevIdle /\ FitIdle /\ CbIdle
    /\ \E r \in JobRows \cup {QueuedRow} :
         job = [pc |-> "ready", n |-> 0, row |-> r, prev |-> r,
                sa |-> IF r = QueuedRow THEN "submitting" ELSE "returned",
                by |-> "none",
                payload |-> [status |-> Absent, stage |-> Absent, progress |-> Absent,
                            result_markdown |-> Absent, error |-> Absent,
                            result_json |-> Absent, meta |-> Absent],
                resp |-> [code |-> 0, ok |-> FALSE]]

SpecJob == JobInit /\ [][job_update \/ start_analyze_save]_vars

\* C17 (as stated): after a processed update, each of status, stage,
\* progress, result text, structured result and error that the payload
\* does not name keeps its prior stored value.
C17_OnlyNamedFieldsChange ==
    (job.pc = "ready" /\ job.by = "job_update" /\ job.resp.code = 200) =>
        \A f \in {"status", "stage", "progress", "result_markdown",
                  "result_json", "error"} :
            job.payload[f] = Absent => job.row[f] = job.prev[f]

\* C18: after a processed update that carries meta, the stored meta holds
\* the new keys and stageHistory ends with the update's stage, holding at
\* most 120 entries.
C18_MetaMergedHistoryCapped ==
    (job.pc = "ready" /\ job.by = "job_update" /\ job.resp.ok
        /\ job.payload.meta # Absent) =>
        /\ job.payload.meta \in job.row.runtime_meta.keys
        /\ Len(job.row.runtime_meta.stageHistory) <= 120
        /\ (job.payload.stage \notin {Absent, ""} =>
                /\ Len(job.row.runtime_meta.stageHistory) > 0
                /\ Last(job.row.runtime_meta.stageHistory) = job.payload.stage)

\* C29: once the stored status of a job is done or error, no step, whether
\* start_analyze's save after submission or a job_update request, changes
\* it back to running or queued.
C29_TerminalStatusNeverReverts ==
    [][(job.pc = "ready" /\ job.row.status \in {"done", "error"}) =>
            job'.row.status \notin {"running", "queued"}]_vars

====
